---- MODULE Spec2Model ----
(***************************************************************************)
(* Tag resolution and cross-reference consistency of the instrument-io     *)
(* scripts: decode_isa_tag.py, apply_io_patterns.py, sync_cross_refs.py    *)
(* and validate_database.py.                                               *)
(*                                                                         *)
(* Python strings that the code takes apart with regular expressions       *)
(* (tags) are sequences of one-character strings; strings that are only    *)
(* compared (pattern names, instrument types, feeder types) are TLA+       *)
(* strings, with the case and whitespace conversions given as tables over  *)
(* the values the inputs are drawn from.                                   *)
(***************************************************************************)
EXTENDS Integers, Sequences, FiniteSets, TLC

VARIABLES
    pc,                   \* position of the running script
    args,                 \* arguments of the pure function under check
    ret,                  \* its results
    equipment_list,       \* apply_patterns: equipment entries (input)
    patterns,             \* apply_patterns: io-patterns table (input)
    db_in,                \* database["instruments"] as loaded
    instruments,          \* database["instruments"], mutated in place
    equipment_map,        \* alias index: tag string -> index into equipment_list
    warnings,
    eq_i,                 \* loop position in the equipment list
    inst_i,               \* loop position in the instrument list
    dedup_removed,
    motor_count,
    applied_count,
    skipped_count,
    field_fallback_count,
    uuid_next,            \* number of uuid4() values minted so far
    paths                 \* Phase 2: the branch each instrument left the loop body by

vars == <<pc, args, ret, equipment_list, patterns, db_in, instruments,
          equipment_map, warnings, eq_i, inst_i, dedup_removed, motor_count,
          applied_count, skipped_count, field_fallback_count, uuid_next, paths>>

applyVars == <<equipment_list, patterns, db_in, instruments, equipment_map,
               warnings, eq_i, inst_i, dedup_removed, motor_count,
               applied_count, skipped_count, field_fallback_count, uuid_next,
               paths>>

(***************************************************************************)
(* Bounds of the model.                                                    *)
(***************************************************************************)
MaxFunctionLen == 2
MaxEq == 2
MaxInst == 2
MaxDup == 3

(***************************************************************************)
(* Characters and strings.                                                 *)
(***************************************************************************)
Digits == <<"0", "1", "2", "3", "4", "5", "6", "7", "8", "9">>

UpperLetters == <<"A", "B", "C", "D", "E", "F", "G", "H", "I", "J", "K", "L", "M",
                  "N", "O", "P", "Q", "R", "S", "T", "U", "V", "W", "X", "Y", "Z">>

LowerLetters == <<"a", "b", "c", "d", "e", "f", "g", "h", "i", "j", "k", "l", "m",
                  "n", "o", "p", "q", "r", "s", "t", "u", "v", "w", "x", "y", "z">>

\* \d
IsDigit(c) == \E i \in DOMAIN Digits : Digits[i] = c

\* [A-Z]
IsUpper(c) == \E i \in DOMAIN UpperLetters : UpperLetters[i] = c

IsLower(c) == \E i \in DOMAIN LowerLetters : LowerLetters[i] = c

upper_char(c) ==
    IF IsLower(c)
    THEN UpperLetters[CHOOSE i \in DOMAIN LowerLetters : LowerLetters[i] = c]
    ELSE c

\* str.upper()
upper(s) == [i \in 1..Len(s) |-> upper_char(s[i])]

\* the end of the run of digits that starts at position i (\d* from i)
DigitRunEnd(s, i) ==
    IF i > Len(s) THEN i ELSE
    CHOOSE j \in i..(Len(s) + 1) :
        /\ \A k \in i..(j - 1) : IsDigit(s[k])
        /\ (j = Len(s) + 1 \/ ~IsDigit(s[j]))

\* the end of the run of capitals that starts at position i ([A-Z]* from i)
UpperRunEnd(s, i) ==
    IF i > Len(s) THEN i ELSE
    CHOOSE j \in i..(Len(s) + 1) :
        /\ \A k \in i..(j - 1) : IsUpper(s[k])
        /\ (j = Len(s) + 1 \/ ~IsUpper(s[j]))

CharAt(s, i) == IF i \in 1..Len(s) THEN s[i] ELSE ""

\* s[i:j] of Python, 1-based and inclusive here
Slice(s, i, j) == IF i > j THEN <<>> ELSE SubSeq(s, i, j)

\* Optional[...] of Python: the absent result, where the present one is a record
None == [none |-> TRUE]

\* the absent result where the present one is a string (a pattern name, a label)
NoneStr == "<None>"

(***************************************************************************)
(* decode_isa_tag.py                                                       *)
(***************************************************************************)
MODIFIERS == {"H", "L", "A"}

CATEGORY_RULES == <<"E", "T", "I", "R", "C", "S", "A">>

CATEGORY_NAMES == <<"primary", "transmitting", "indicating", "recording",
                    "controlling", "switching", "safety">>

InCategoryRules(c) == \E i \in DOMAIN CATEGORY_RULES : CATEGORY_RULES[i] = c

CategoryOf(c) == CATEGORY_NAMES[CHOOSE i \in DOMAIN CATEGORY_RULES : CATEGORY_RULES[i] = c]

\* the category of the first function letter, in tag order, that is in the table
Category(function) ==
    IF \E i \in DOMAIN function : InCategoryRules(function[i])
    THEN LET first == CHOOSE i \in DOMAIN function :
                          /\ InCategoryRules(function[i])
                          /\ \A k \in 1..(i - 1) : ~InCategoryRules(function[k])
         IN CategoryOf(function[first])
    ELSE "primary"

\* the function letters of LETTERS[1:]: every letter but a final H, L or A
FunctionOf(remaining) ==
    IF remaining # <<>> /\ remaining[Len(remaining)] \in MODIFIERS
    THEN Slice(remaining, 1, Len(remaining) - 1)
    ELSE remaining

ModifierOf(remaining) ==
    IF remaining # <<>> /\ remaining[Len(remaining)] \in MODIFIERS
    THEN <<remaining[Len(remaining)]>>
    ELSE <<>>

\* $ of a pattern at position i of s: the end of s, or the newline that ends s
EndOfLine(s, i) == i = Len(s) + 1 \/ (i = Len(s) /\ s[i] = "\n")

\* ^(\d{3})-([A-Z]+)-(\d+)([A-Z]?)$ on tag.upper(); then the split of the letters
decode_tag(tag) ==
    LET u == upper(tag)
        lettersEnd == UpperRunEnd(u, 5)
        numberEnd == DigitRunEnd(u, lettersEnd + 1)
        matches ==
            /\ Len(u) >= 4
            /\ \A k \in 1..3 : IsDigit(u[k])
            /\ u[4] = "-"
            /\ lettersEnd > 5
            /\ CharAt(u, lettersEnd) = "-"
            /\ numberEnd > lettersEnd + 1
            /\ EndOfLine(u, IF IsUpper(CharAt(u, numberEnd))
                             THEN numberEnd + 1 ELSE numberEnd)
        letters == Slice(u, 5, lettersEnd - 1)
        remaining == Tail(letters)
    IN IF ~matches THEN None
       ELSE IF Len(letters) < 2 THEN None
       ELSE [area |-> Slice(u, 1, 3),
             variable |-> <<letters[1]>>,
             function |-> FunctionOf(remaining),
             modifier |-> ModifierOf(remaining),
             loop_number |-> Slice(u, lettersEnd + 1, numberEnd - 1),
             suffix |-> IF IsUpper(CharAt(u, numberEnd)) THEN <<u[numberEnd]>> ELSE <<>>,
             category |-> Category(FunctionOf(remaining)),
             loop_id |-> <<letters[1]>> \o FunctionOf(remaining) \o <<"-">>
                         \o Slice(u, lettersEnd + 1, numberEnd - 1),
             full_tag |-> u]

\* a generator that writes the modifier before the function letters
generate_tag_ModifierFirst(area, variable, function, loop_number, modifier, suffix) ==
    upper(area \o <<"-">> \o variable \o modifier \o function \o <<"-">>
          \o loop_number \o suffix)

generate_tag(area, variable, function, loop_number, modifier, suffix) ==
    upper(area \o <<"-">> \o variable \o function \o modifier \o <<"-">>
          \o loop_number \o suffix)

(***************************************************************************)
(* Tag self-consistency: sync_cross_refs.py and validate_database.py.      *)
(* A tag record holds area, variable, function, modifier, loop_number,     *)
(* suffix and full_tag; a field the record lacks reads as ''.              *)
(***************************************************************************)
Field(tag, name) == IF name \in DOMAIN tag THEN tag[name] ELSE <<>>

RECURSIVE Join(_, _)
\* sep.join(parts)
Join(parts, sep) ==
    IF parts = <<>> THEN <<>>
    ELSE IF Len(parts) = 1 THEN parts[1]
    ELSE parts[1] \o sep \o Join(Tail(parts), sep)

RECURSIVE NonEmpty(_)
\* [p for p in parts if p]
NonEmpty(parts) ==
    IF parts = <<>> THEN <<>>
    ELSE IF Head(parts) = <<>> THEN NonEmpty(Tail(parts))
    ELSE <<Head(parts)>> \o NonEmpty(Tail(parts))

\* sync_cross_refs.validate_tag_consistency: the tag it computes from the parts
sync_expected(tag) ==
    LET func_letters == Field(tag, "variable") \o Field(tag, "function")
                        \o Field(tag, "modifier")
        expected == Join(NonEmpty(<<func_letters, Field(tag, "area"),
                                    Field(tag, "loop_number")>>), <<"-">>)
        suffix == Field(tag, "suffix")
    IN IF suffix # <<>>
       THEN (IF expected # <<>> THEN expected \o <<"-">> \o suffix ELSE suffix)
       ELSE expected

RECURSIVE validate_tag_consistency(_)
\* one finding (the full_tag and the computed tag) per mismatching instrument
validate_tag_consistency(insts) ==
    IF insts = <<>> THEN <<>>
    ELSE LET tag == Head(insts).tag
             full_tag == Field(tag, "full_tag")
         IN (IF full_tag # <<>> /\ upper(full_tag) # upper(sync_expected(tag))
             THEN <<[full_tag |-> full_tag, computed |-> sync_expected(tag)]>>
             ELSE <<>>)
            \o validate_tag_consistency(Tail(insts))

\* validate_database: the tag it computes from the parts
vdb_expected(tag) ==
    Field(tag, "area") \o <<"-">> \o Field(tag, "variable") \o Field(tag, "function")
    \o Field(tag, "modifier") \o <<"-">> \o Field(tag, "loop_number")
    \o Field(tag, "suffix")

RECURSIVE validate_database_tags(_)
\* validate_database, "Validate tag structure matches full_tag"
validate_database_tags(insts) ==
    IF insts = <<>> THEN <<>>
    ELSE LET tag == Head(insts).tag
             full_tag == Field(tag, "full_tag")
         IN (IF full_tag # <<>> /\ full_tag # vdb_expected(tag)
             THEN <<[full_tag |-> full_tag, computed |-> vdb_expected(tag)]>>
             ELSE <<>>)
            \o validate_database_tags(Tail(insts))

(***************************************************************************)
(* The tag codec run: generate a tag from components, decode it, then run  *)
(* both tag self-consistency checks on a tag record.                       *)
(***************************************************************************)
RECURSIVE SeqsUpTo(_, _)
\* the sequences over S of length at most n
SeqsUpTo(S, n) ==
    IF n = 0 THEN {<<>>}
    ELSE LET shorter == SeqsUpTo(S, n - 1)
         IN shorter \cup {Append(q, x) : q \in shorter, x \in S}

CodecAreas == {<<"2", "0", "0">>, <<"1", "0", "1">>}
CodecVariables == {<<"F">>, <<"l">>, <<"P">>}
CodecFunctionLetters == {"I", "T", "A", "c"}
CodecModifiers == {<<>>, <<"H">>, <<"L">>, <<"a">>}
CodecLoopNumbers == {<<"0", "1">>, <<"7">>}
CodecSuffixes == {<<>>, <<"A">>, <<"b">>}

Components ==
    [area : CodecAreas, variable : CodecVariables,
     function : SeqsUpTo(CodecFunctionLetters, MaxFunctionLen),
     modifier : CodecModifiers, loop_number : CodecLoopNumbers,
     suffix : CodecSuffixes]

NoApply ==
    /\ equipment_list = <<>>
    /\ patterns = <<>>
    /\ db_in = <<>>
    /\ instruments = <<>>
    /\ equipment_map = <<>>
    /\ warnings = <<>>
    /\ eq_i = 0
    /\ inst_i = 0
    /\ dedup_removed = 0
    /\ motor_count = 0
    /\ applied_count = 0
    /\ skipped_count = 0
    /\ field_fallback_count = 0
    /\ uuid_next = 0
    /\ paths = <<>>

InitCodec ==
    /\ pc = "generate"
    /\ args \in Components
    /\ ret = [tag |-> <<>>, dec |-> None, inst |-> None, sync |-> <<>>, vdb |-> <<>>]
    /\ NoApply

GenerateTag ==
    /\ pc = "generate"
    /\ ret' = [ret EXCEPT !.tag = generate_tag(args.area, args.variable, args.function,
                                               args.loop_number, args.modifier,
                                               args.suffix)]
    /\ pc' = "decode"
    /\ UNCHANGED <<args, applyVars>>

DecodeTag ==
    /\ pc = "decode"
    /\ ret' = [ret EXCEPT !.dec = decode_tag(ret.tag)]
    /\ pc' = "check"
    /\ UNCHANGED <<args, applyVars>>

\* the tag records the checks are run on: the decoder's record, the components
\* with the generated full_tag, and the components with another full_tag
TagRecords ==
    (IF ret.dec = None THEN {} ELSE {ret.dec})
    \cup {[area |-> args.area, variable |-> args.variable, function |-> args.function,
           modifier |-> args.modifier, loop_number |-> args.loop_number,
           suffix |-> args.suffix, full_tag |-> ft] :
          ft \in {ret.tag, ret.tag \o <<"X">>, sync_expected(args)}}

CheckTag ==
    /\ pc = "check"
    /\ \E tag \in TagRecords :
          ret' = [ret EXCEPT !.inst = [tag |-> tag],
                             !.sync = validate_tag_consistency(<<[tag |-> tag]>>),
                             !.vdb = validate_database_tags(<<[tag |-> tag]>>)]
    /\ pc' = "done"
    /\ UNCHANGED <<args, applyVars>>

NextCodec == GenerateTag \/ DecodeTag \/ CheckTag

SpecCodec == InitCodec /\ [][NextCodec]_vars

(***************************************************************************)
(* Claims on the tag codec.                                                *)
(***************************************************************************)
Decoded == pc \in {"check", "done"}

RoundTripEqual ==
    /\ ret.dec # None
    /\ ret.dec.area = upper(args.area)
    /\ ret.dec.variable = upper(args.variable)
    /\ ret.dec.function = upper(args.function)
    /\ ret.dec.modifier = upper(args.modifier)
    /\ ret.dec.loop_number = upper(args.loop_number)
    /\ ret.dec.suffix = upper(args.suffix)

\* C1 as stated: decode_tag(generate_tag(t)) is present and returns the components
\* of t, uppercased, for every well-formed component set t (here: for those with at
\* least one function letter).
C1_RoundTripAll == (Decoded /\ args.function # <<>>) => RoundTripEqual

\* the letters after the variable split back into function and modifier as given
SplitsBack ==
    \/ args.modifier # <<>>
    \/ /\ args.function # <<>>
       /\ upper_char(args.function[Len(args.function)]) \notin MODIFIERS

\* C1 amended: decode_tag(generate_tag(t)) is present and returns the components of
\* t, uppercased, for every well-formed t that has a modifier, or has at least one
\* function letter and a last function letter other than H, L and A.
C1_RoundTrip == (Decoded /\ SplitsBack) => RoundTripEqual

C1_Witness ==
    /\ pc = "done"
    /\ SplitsBack
    /\ args.modifier = <<>>
    /\ Len(args.function) = 2
    /\ args.variable = <<"l">>
    /\ ret.dec # None
    /\ ret.dec.function = upper(args.function)

GeneratedFrom(tag) ==
    generate_tag(Field(tag, "area"), Field(tag, "variable"), Field(tag, "function"),
                 Field(tag, "loop_number"), Field(tag, "modifier"),
                 Field(tag, "suffix"))

\* C5 as stated: both tag self-consistency checks (sync_cross_refs and
\* validate_database) report nothing for a tag record whose full_tag is
\* generate_tag of its parts, and report a mismatch for every other record.
C5_ChecksFollowGenerate ==
    pc = "done" =>
        LET tag == ret.inst.tag
            consistent == tag.full_tag = GeneratedFrom(tag)
        IN /\ (ret.sync = <<>>) <=> consistent
           /\ (ret.vdb = <<>>) <=> consistent

(***************************************************************************)
(* apply_io_patterns.py: the field-instrument classifier.                  *)
(* An instrument is a record with equipment_tag, instrument_type, tag      *)
(* (full_tag, variable, functions, ...), io_signals and provenance;        *)
(* functions is the collection of function letters, read only by `in`.     *)
(***************************************************************************)
\* str.lower() on the instrument types of the model
lower(s) ==
    CASE s = "Motor Control" -> "motor control"
      [] s = "Motor" -> "motor"
      [] s = "Transmitter" -> "transmitter"
      [] s = "Analyzer" -> "analyzer"
      [] s = "Ball Valve" -> "ball valve"
      [] s = "Strainer" -> "strainer"
      [] s = "Switch" -> "switch"
      [] OTHER -> s

IsSpace(c) == c = " "

RECURSIVE lstrip(_)
lstrip(s) == IF s # <<>> /\ IsSpace(Head(s)) THEN lstrip(Tail(s)) ELSE s

RECURSIVE rstrip(_)
rstrip(s) ==
    IF s # <<>> /\ IsSpace(s[Len(s)]) THEN rstrip(Slice(s, 1, Len(s) - 1)) ELSE s

\* str.strip()
strip(s) == rstrip(lstrip(s))

\* str.startswith(p)
startswith(s, p) == Len(s) >= Len(p) /\ Slice(s, 1, Len(p)) = p

\* str.endswith(p)
endswith(s, p) == Len(s) >= Len(p) /\ Slice(s, Len(s) - Len(p) + 1, Len(s)) = p

\* the positions at which sep occurs in s
Occurrences(s, sep) ==
    {i \in 1..(Len(s) - Len(sep) + 1) : Slice(s, i, i + Len(sep) - 1) = sep}

Min(S) == CHOOSE x \in S : \A y \in S : x <= y

\* s.split(sep)[0]
SplitHead(s, sep) ==
    IF Occurrences(s, sep) = {} THEN s
    ELSE Slice(s, 1, Min(Occurrences(s, sep)) - 1)

LOCAL_PREFIXES == {<<"P", "G">>, <<"T", "G">>, <<"F", "G">>, <<"L", "G">>, <<"S", "G">>}

MANUAL_VALVE_PREFIXES ==
    {<<"V", "B">>, <<"B", "F", "V">>, <<"G", "V">>, <<"V", "-", "R", "N">>,
     <<"N", "R", "V">>, <<"C", "V", "-", "M">>}

MANUAL_VALVE_TYPES ==
    {"ball valve", "manual valve", "gate valve", "butterfly valve", "check valve",
     "non-return valve"}

is_local_instrument(inst) ==
    LET full_tag == strip(inst.tag.full_tag)
        functions == inst.tag.functions
        inst_type == lower(inst.instrument_type)
        tag_upper == IF full_tag # <<>>
                     THEN SplitHead(SplitHead(upper(full_tag), <<"-", "-">>), <<"-">>)
                     ELSE <<>>
        rest == Slice(upper(full_tag), 3, Len(full_tag))
    IN IF "G" \in functions /\ "T" \notin functions /\ "S" \notin functions THEN TRUE
       ELSE IF tag_upper \in LOCAL_PREFIXES THEN TRUE
       ELSE IF /\ \E p \in LOCAL_PREFIXES : startswith(upper(full_tag), p)
               /\ (rest = <<>> \/ startswith(rest, <<"-">>) \/ startswith(rest, <<" ">>))
            THEN TRUE
       ELSE IF \E p \in MANUAL_VALVE_PREFIXES : startswith(upper(full_tag), p) THEN TRUE
       ELSE IF inst_type \in MANUAL_VALVE_TYPES THEN TRUE
       ELSE IF tag_upper = <<"S", "T">> \/ inst_type = "strainer" THEN TRUE
       ELSE FALSE

\* a classifier that looks at the switch function before the transmitter rules
infer_field_instrument_pattern_SwitchFirst(inst) ==
    LET functions == inst.tag.functions
        variable == inst.tag.variable
        inst_type == lower(inst.instrument_type)
    IN IF is_local_instrument(inst) THEN NoneStr
       ELSE IF "S" \in functions
            THEN (IF variable = <<"L">> THEN "level_switch"
                  ELSE IF variable = <<"P">> THEN "pressure_switch"
                  ELSE IF variable = <<"T">> THEN "temperature_switch"
                  ELSE IF variable = <<"F">> THEN "flow_switch"
                  ELSE "level_switch")
       ELSE IF "T" \in functions /\ "I" \in functions THEN "transmitter_4_20"
       ELSE IF inst_type = "transmitter" THEN "transmitter_4_20"
       ELSE IF variable = <<"X">> /\ "V" \in functions THEN "valve_onoff_electric"
       ELSE IF inst_type = "analyzer" THEN "transmitter_4_20"
       ELSE NoneStr

\* the pattern name, or NoneStr
infer_field_instrument_pattern(inst) ==
    LET functions == inst.tag.functions
        variable == inst.tag.variable
        inst_type == lower(inst.instrument_type)
    IN IF is_local_instrument(inst) THEN NoneStr
       ELSE IF "T" \in functions /\ "I" \in functions THEN "transmitter_4_20"
       ELSE IF inst_type = "transmitter" THEN "transmitter_4_20"
       ELSE IF "S" \in functions
            THEN (IF variable = <<"L">> THEN "level_switch"
                  ELSE IF variable = <<"P">> THEN "pressure_switch"
                  ELSE IF variable = <<"T">> THEN "temperature_switch"
                  ELSE IF variable = <<"F">> THEN "flow_switch"
                  ELSE "level_switch")
       ELSE IF variable = <<"X">> /\ "V" \in functions THEN "valve_onoff_electric"
       ELSE IF inst_type = "analyzer" THEN "transmitter_4_20"
       ELSE NoneStr

(***************************************************************************)
(* The classifier run: is_local_instrument, then                           *)
(* infer_field_instrument_pattern, on one instrument.                      *)
(***************************************************************************)
\* AREA-LETTERS-NUMBER
AreaFirst(area, letters, number) == area \o <<"-">> \o letters \o <<"-">> \o number

ClassifierTags ==
    {<<>>,
     AreaFirst(<<"2", "0", "0">>, <<"P", "G">>, <<"0", "1">>),
     AreaFirst(<<"2", "0", "0">>, <<"L", "G">>, <<"0", "2">>),
     AreaFirst(<<"2", "0", "0">>, <<"F", "I", "T">>, <<"0", "1">>),
     AreaFirst(<<"2", "0", "0">>, <<"L", "S", "H">>, <<"0", "1">>),
     <<"P", "G", "-", "2", "0", "0", "-", "0", "1">>,
     <<" ", "t", "g", " ", "1">>,
     <<"P", "G", "A", "-", "0", "1">>,
     <<"S", "T", "-", "0", "1">>,
     <<"V", "B", "-", "0", "3">>,
     <<"X", "V", "-", "0", "1">>}

ClassifierFunctions ==
    {{}, {"G"}, {"G", "T"}, {"I", "T"}, {"S"}, {"S", "H"}, {"V"}, {"I", "T", "S"}}

ClassifierVariables == {<<>>, <<"P">>, <<"L">>, <<"X">>, <<"T">>, <<"F">>}

ClassifierTypes == {"", "Transmitter", "Ball Valve", "Strainer", "Analyzer"}

ClassifierInstruments ==
    {[equipment_tag |-> <<>>, instrument_type |-> ty, io_signals |-> <<>>,
      provenance |-> [extraction_source |-> "pid"],
      tag |-> [full_tag |-> ft, variable |-> v, functions |-> fs]] :
     ft \in ClassifierTags, fs \in ClassifierFunctions, v \in ClassifierVariables,
     ty \in ClassifierTypes}

InitLocal ==
    /\ pc = "is_local"
    /\ args \in ClassifierInstruments
    /\ ret = [local |-> FALSE, pattern |-> NoneStr]
    /\ NoApply

IsLocalInstrument ==
    /\ pc = "is_local"
    /\ ret' = [ret EXCEPT !.local = is_local_instrument(args)]
    /\ pc' = "infer"
    /\ UNCHANGED <<args, applyVars>>

InferFieldInstrumentPattern ==
    /\ pc = "infer"
    /\ ret' = [ret EXCEPT !.pattern = infer_field_instrument_pattern(args)]
    /\ pc' = "done"
    /\ UNCHANGED <<args, applyVars>>

NextLocal == IsLocalInstrument \/ InferFieldInstrumentPattern

SpecLocal == InitLocal /\ [][NextLocal]_vars

(***************************************************************************)
(* Claims on the classifier.                                               *)
(***************************************************************************)
\* the instrument is described by its full_tag alone
OnlyFullTag(inst) ==
    /\ inst.tag.functions = {}
    /\ inst.tag.variable = <<>>
    /\ inst.instrument_type = ""

\* the letter group of a tag of the form AREA-LETTERS-NUMBER, or <<>>
LetterGroup(full_tag) ==
    LET d == decode_tag(full_tag)
    IN IF d = None THEN <<>> ELSE d.variable \o d.function \o d.modifier

LocalGaugeCodes == {<<"P", "G">>, <<"T", "G">>, <<"F", "G">>, <<"L", "G">>}

TransmitterCodes == {<<"F", "I", "T">>, <<"L", "I", "T">>, <<"P", "I", "T">>}

\* C2 as stated: is_local_instrument is true for an instrument described only by an
\* area-prefixed full_tag whose letter group is a local gauge code (PG, TG, FG, LG)
\* and false for one whose letter group is a transmitter code.
C2_AreaPrefixedGaugeIsLocal ==
    (pc \in {"infer", "done"} /\ OnlyFullTag(args)) =>
        /\ LetterGroup(args.tag.full_tag) \in LocalGaugeCodes => ret.local = TRUE
        /\ LetterGroup(args.tag.full_tag) \in TransmitterCodes => ret.local = FALSE

(***************************************************************************)
(* apply_io_patterns.py: equipment tags.                                   *)
(***************************************************************************)
\* the position after the [A-Z]?\d{3,4}- that opens a long-form tag, or 0
AreaPrefixEnd(tag) ==
    LET p0 == IF IsUpper(CharAt(tag, 1)) THEN 2 ELSE 1
        dEnd == DigitRunEnd(tag, p0)
    IN IF (dEnd - p0) \in {3, 4} /\ CharAt(tag, dEnd) = "-" THEN dEnd + 1 ELSE 0

\* the letters from position a up to lEnd when "-" and a digit follow them there
TypeLetters(tag, a, lEnd) ==
    IF lEnd > a /\ CharAt(tag, lEnd) = "-" /\ IsDigit(CharAt(tag, lEnd + 1))
    THEN Slice(tag, a, lEnd - 1)
    ELSE <<>>

\* group 1 of ^[A-Z]?\d{3,4}-([A-Z]+)-\d, given the end a of the area prefix
LongFormType(tag, a) == IF a > 0 THEN TypeLetters(tag, a, UpperRunEnd(tag, a)) ELSE <<>>

\* group 1 of ^([A-Z]{1,5})-\d
ShortFormType(tag) ==
    IF Len(TypeLetters(tag, 1, UpperRunEnd(tag, 1))) <= 5
    THEN TypeLetters(tag, 1, UpperRunEnd(tag, 1))
    ELSE <<>>

extract_equipment_type(tag) ==
    IF LongFormType(tag, AreaPrefixEnd(tag)) # <<>>
    THEN LongFormType(tag, AreaPrefixEnd(tag))
    ELSE ShortFormType(tag)

\* str.split(sep) for a one-character sep: the pieces between the separators
split(s, sep) ==
    LET at == {i \in 1..Len(s) : s[i] = sep}
        cut(k) == IF k = 0 THEN 0
                  ELSE IF k > Cardinality(at) THEN Len(s) + 1
                  ELSE CHOOSE i \in at : Cardinality({j \in at : j <= i}) = k
    IN [k \in 1..(Cardinality(at) + 1) |-> Slice(s, cut(k - 1) + 1, cut(k) - 1)]

RECURSIVE IsPairedSuffix(_)
\* (/\d+)+ matches the whole of s
IsPairedSuffix(s) ==
    /\ s # <<>>
    /\ s[1] = "/"
    /\ DigitRunEnd(s, 2) > 2
    /\ \/ DigitRunEnd(s, 2) = Len(s) + 1
       \/ IsPairedSuffix(Slice(s, DigitRunEnd(s, 2), Len(s)))

\* re.sub(r"(/\d+)+$", "", part): the leftmost suffix that matches is cut
StripPairedSuffix(part) ==
    LET starts == {i \in 1..Len(part) : IsPairedSuffix(Slice(part, i, Len(part)))}
    IN IF starts = {} THEN part ELSE Slice(part, 1, Min(starts) - 1)

RECURSIVE StripEach(_)
StripEach(parts) ==
    IF parts = <<>> THEN <<>> ELSE <<strip(Head(parts))>> \o StripEach(Tail(parts))

RECURSIVE CleanedParts(_)
CleanedParts(parts) ==
    IF parts = <<>> THEN <<>>
    ELSE (IF StripPairedSuffix(Head(parts)) # <<>>
          THEN <<StripPairedSuffix(Head(parts))>> ELSE <<>>)
         \o CleanedParts(Tail(parts))

normalize_equipment_tag(raw_tag) == CleanedParts(StripEach(split(raw_tag, ",")))

\* ^([A-Z]?\d{3,4}-[A-Z]{1,5}-)(\d+) : the end of the prefix and of the sequence
\* number, or <<0, 0>> when the tag does not open that way
IsaPrefixAt(tag, a, lEnd, sEnd) ==
    IF a > 0 /\ (lEnd - a) \in 1..5 /\ CharAt(tag, lEnd) = "-" /\ sEnd > lEnd + 1
    THEN <<lEnd, sEnd>>
    ELSE <<0, 0>>

IsaPrefixFrom(tag, a, lEnd) == IsaPrefixAt(tag, a, lEnd, DigitRunEnd(tag, lEnd + 1))

IsaPrefix(tag) ==
    IF AreaPrefixEnd(tag) > 0
    THEN IsaPrefixFrom(tag, AreaPrefixEnd(tag), UpperRunEnd(tag, AreaPrefixEnd(tag)))
    ELSE <<0, 0>>

\* the (?:/\d+)+$ that has to follow the prefix m of a paired tag
PairedAfter(tag, m) == m[1] > 0 /\ IsPairedSuffix(Slice(tag, m[2], Len(tag)))

\* _paired_tag_re: ^([A-Z]?\d{3,4}-[A-Z]{1,5}-)(\d+)((?:/\d+)+)$
paired_tag_match(tag) == PairedAfter(tag, IsaPrefix(tag))

\* the $ that has to follow the prefix m of an unpaired tag
EndsAfter(tag, m) == m[1] > 0 /\ m[2] = Len(tag) + 1

\* ^([A-Z]?\d{3,4}-[A-Z]{1,5}-)(\d+)$
sibling_match(tag) == EndsAfter(tag, IsaPrefix(tag))

RECURSIVE zfill(_, _)
\* str.zfill(width) of a string of digits
zfill(s, width) == IF Len(s) >= width THEN s ELSE zfill(<<"0">> \o s, width)

DigitValue(c) == (CHOOSE i \in DOMAIN Digits : Digits[i] = c) - 1

RECURSIVE int(_)
\* int(s) of a string of digits
int(s) == IF s = <<>> THEN 0 ELSE 10 * int(Slice(s, 1, Len(s) - 1)) + DigitValue(s[Len(s)])

RECURSIVE str(_)
\* str(n) of a natural number
str(n) == IF n < 10 THEN <<Digits[n + 1]>> ELSE str(n \div 10) \o <<Digits[(n % 10) + 1]>>

\* f"{n:0{width}d}"
format_0d(n, width) == zfill(str(n), width)

Max(S) == CHOOSE x \in S : \A y \in S : x >= y

\* the individual tags a paired tag expands to, in order
\* f"{prefix}{s.zfill(fmt_len)}" for each s of all_seqs
ZeroFilled(prefix, all_seqs, fmt_len) ==
    [k \in DOMAIN all_seqs |-> prefix \o zfill(all_seqs[k], fmt_len)]

\* the tags of a prefix and its sequence numbers, padded to the longest of them
Expanded(prefix, all_seqs) ==
    ZeroFilled(prefix, all_seqs, Max({Len(all_seqs[k]) : k \in DOMAIN all_seqs}))

\* the expansion of a paired tag whose groups 1 and 2 end at m[1] and m[2] - 1
PairedTagsAt(tag, m) ==
    Expanded(Slice(tag, 1, m[1]),
             <<Slice(tag, m[1] + 1, m[2] - 1)>>
                 \o NonEmpty(split(Slice(tag, m[2], Len(tag)), "/")))

\* the individual tags a paired tag expands to, in order
PairedTags(tag) == PairedTagsAt(tag, IsaPrefix(tag))

\* f"{sib_prefix}{int(sib_seq) + offset:0{len(sib_seq)}d}" for each offset
Siblings(sib_prefix, sib_seq, quantity) ==
    [offset \in 1..(quantity - 1) |->
        sib_prefix \o format_0d(int(sib_seq) + offset, Len(sib_seq))]

\* the inferred sibling tags of an unpaired tag, for offsets 1..quantity-1
SiblingTagsAt(tag, m, quantity) ==
    Siblings(Slice(tag, 1, m[1]), Slice(tag, m[1] + 1, Len(tag)), quantity)

SiblingTags(tag, quantity) == SiblingTagsAt(tag, IsaPrefix(tag), quantity)

\* "S" in qty_note.upper()
NoteHasS(qty_note) == \E i \in DOMAIN qty_note : upper_char(qty_note[i]) = "S"

(***************************************************************************)
(* apply_io_patterns.py: feeder type -> pattern tables.                    *)
(***************************************************************************)
MOTOR_PATTERNS ==
    ("DOL" :> "pump_dol") @@ ("VFD" :> "pump_vfd") @@ ("VFD-EXT" :> "pump_vfd_extended")
    @@ ("VFD_EXTENDED" :> "pump_vfd_extended") @@ ("SOFT-STARTER" :> "motor_soft_starter")
    @@ ("SOFT_STARTER" :> "motor_soft_starter") @@ ("VENDOR" :> "pump_dol")
    @@ ("VENDOR_PANEL" :> "pump_dol")

PUMP_PATTERNS ==
    ("DOL" :> "pump_dol") @@ ("VFD" :> "pump_vfd") @@ ("VFD-EXT" :> "pump_vfd_extended")
    @@ ("SOFT-STARTER" :> "motor_soft_starter") @@ ("VENDOR" :> "pump_dol")
    @@ ("AODD" :> "aodd_pump") @@ ("METERING" :> "metering_pump_speed")
    @@ ("METERING-FULL" :> "metering_pump_full")

VALVE_PATTERNS ==
    ("MOD-ELECTRIC" :> "valve_modulating_electric")
    @@ ("MOD-PNEUMATIC" :> "valve_modulating_pneumatic")
    @@ ("ONOFF-ELECTRIC" :> "valve_onoff_electric")
    @@ ("ONOFF-PNEUMATIC" :> "valve_onoff_pneumatic")
    @@ ("POSITIONER" :> "valve_positioner") @@ ("SOLENOID" :> "solenoid_valve")

PumpCodes == {<<"P">>, <<"P", "U">>, <<"M", "P">>}

MotorCodes ==
    {<<"B">>, <<"B", "L">>, <<"M", "X">>, <<"A", "G">>, <<"C", "P">>, <<"F", "N">>,
     <<"S", "C">>, <<"C", "N">>, <<"C", "L">>, <<"T", "H">>, <<"C", "F">>, <<"B", "F">>,
     <<"W", "C">>, <<"C", "T">>, <<"C">>, <<"C", "O", "M", "P">>, <<"G">>, <<"G", "R">>,
     <<"S", "P">>, <<"F", "P">>, <<"S", "M">>, <<"D", "R">>}

ValveCodes == {<<"C", "V">>, <<"B", "V">>, <<"G", "V">>}

\* the keys of EQUIPMENT_PATTERN_MAP
EquipmentCodes ==
    PumpCodes \cup MotorCodes \cup ValveCodes \cup {<<"M", "O", "V">>, <<"S", "O", "V">>}

\* EQUIPMENT_PATTERN_MAP.get(eq_type): the feeder table, empty when there is none
EQUIPMENT_PATTERN_MAP(eq_type) ==
    IF eq_type \in PumpCodes THEN PUMP_PATTERNS
    ELSE IF eq_type \in MotorCodes THEN MOTOR_PATTERNS
    ELSE IF eq_type \in ValveCodes THEN VALVE_PATTERNS
    ELSE IF eq_type = <<"M", "O", "V">> THEN ("DEFAULT" :> "valve_onoff_electric")
    ELSE IF eq_type = <<"S", "O", "V">> THEN ("DEFAULT" :> "solenoid_valve")
    ELSE <<>>

FEEDER_DISPLAY ==
    ("DOL" :> "DOL") @@ ("VFD" :> "VFD") @@ ("VFD-EXT" :> "VFD")
    @@ ("VFD_EXTENDED" :> "VFD") @@ ("SOFT-STARTER" :> "Soft-Starter")
    @@ ("SOFT_STARTER" :> "Soft-Starter") @@ ("VENDOR" :> "Vendor Panel")
    @@ ("VENDOR_PANEL" :> "Vendor Panel") @@ ("AODD" :> "DOL") @@ ("METERING" :> "DOL")
    @@ ("METERING-FULL" :> "DOL") @@ ("MOD-ELECTRIC" :> "Direct")
    @@ ("MOD-PNEUMATIC" :> "Direct") @@ ("ONOFF-ELECTRIC" :> "Direct")
    @@ ("ONOFF-PNEUMATIC" :> "Direct") @@ ("POSITIONER" :> "Direct")
    @@ ("SOLENOID" :> "Direct") @@ ("DEFAULT" :> "Direct")

\* (feeder_type or "").upper().strip() on the feeder types of the model
feeder_upper_strip(s) ==
    CASE s = "vfd " -> "VFD"
      [] s = "dol" -> "DOL"
      [] s = " " -> ""
      [] s = "soft-starter" -> "SOFT-STARTER"
      [] s = " mod-electric" -> "MOD-ELECTRIC"
      [] OTHER -> s

\* dict.get(key, default)
Get(d, key, default) == IF key \in DOMAIN d THEN d[key] ELSE default

\* (pattern_name, feeder_display), or (None, None)
\* a lookup that knows no DEFAULT entry
lookup_pattern_NoDefault(feeder_type, pattern_table) ==
    IF feeder_type \in DOMAIN pattern_table
    THEN <<pattern_table[feeder_type], Get(FEEDER_DISPLAY, feeder_type, feeder_type)>>
    ELSE <<NoneStr, NoneStr>>

\* the lookup in the feeder table of the equipment type: the pattern name, and the
\* DEFAULT entry when the feeder type is not a key
lookup_pattern(feeder_type, pattern_table) ==
    LET pattern_name == IF feeder_type \in DOMAIN pattern_table
                        THEN pattern_table[feeder_type]
                        ELSE Get(pattern_table, "DEFAULT", NoneStr)
    IN IF DOMAIN pattern_table = {} THEN <<NoneStr, NoneStr>>
       ELSE IF pattern_name = NoneStr THEN <<NoneStr, NoneStr>>
       ELSE <<pattern_name, Get(FEEDER_DISPLAY, feeder_type, feeder_type)>>

pattern_for(feeder_type, eq_type) ==
    IF feeder_type = "" THEN <<NoneStr, NoneStr>>
    ELSE IF eq_type = <<>> THEN <<NoneStr, NoneStr>>
    ELSE lookup_pattern(feeder_type, EQUIPMENT_PATTERN_MAP(eq_type))

\* (pattern_name, feeder_display), or (None, None)
get_pattern_for_equipment(equipment) ==
    pattern_for(feeder_upper_strip(equipment.feeder_type),
                extract_equipment_type(equipment.tag))

(***************************************************************************)
(* apply_io_patterns.py: signals.  uuid4() is a generator of tokens: the   *)
(* n-th call returns <<"uuid4", n>>, and the functions that call it take   *)
(* the number of calls made so far.                                        *)
(***************************************************************************)
uuid4(n) == <<"uuid4", n + 1>>

\* a signal whose tags leave out the dash before the suffix
Signal_NoDash(sig, base_tag, feeder_type, id) ==
    [io_point_id |-> id,
     plc_tag |-> base_tag \o Get(sig, "suffix", <<>>),
     field_tag |-> base_tag \o Get(sig, "suffix", <<>>),
     suffix |-> Get(sig, "suffix", <<>>),
     io_type |-> Get(sig, "io_type", "DI"),
     pattern_source |-> NoneStr,
     electrical |-> [feeder_type |-> feeder_type]]

\* the n-th signal of generate_io_signals, before the caller stamps pattern_source
Signal(sig, base_tag, feeder_type, id) ==
    LET suffix == Get(sig, "suffix", <<>>)
    IN [io_point_id |-> id,
        signal_function |-> Get(sig, "function", "Status"),
        io_type |-> Get(sig, "io_type", "DI"),
        signal_type |-> Get(sig, "signal_type", "24V DC"),
        termination |-> "PLC",
        component_type |-> Get(sig, "component", ""),
        plc_tag |-> IF suffix # <<>> THEN base_tag \o <<"-">> \o suffix ELSE base_tag,
        field_tag |-> IF suffix # <<>> THEN base_tag \o <<"-">> \o suffix ELSE base_tag,
        suffix |-> suffix,
        description |-> Get(sig, "description", ""),
        protocol |-> Get(sig, "protocol", NoneStr),
        marshalling |-> NoneStr,
        pattern_source |-> NoneStr,
        electrical |-> [feeder_type |-> feeder_type]]

generate_io_signals(pattern, base_tag, feeder_type, uuids) ==
    LET templates == Get(pattern, "signals", <<>>)
    IN [k \in DOMAIN templates |->
            Signal(templates[k], base_tag, feeder_type, uuid4(uuids + k - 1))]

\* for sig in io_signals: sig["pattern_source"] = pattern_name
stamp(io_signals, pattern_name) ==
    [k \in DOMAIN io_signals |-> [io_signals[k] EXCEPT !.pattern_source = pattern_name]]

\* patterns.get(name), and the truth value Python gives the result
PatternGet(table, name) == Get(table, name, None)

Truthy(pattern) == pattern # None /\ DOMAIN pattern # {}

(***************************************************************************)
(* apply_io_patterns.py: the motor instrument synthesizer.                 *)
(***************************************************************************)
Range(q) == {q[k] : k \in DOMAIN q}

IsMotorInstrument(inst) ==
    \/ endswith(inst.tag.full_tag, <<"-", "M">>)
    \/ lower(inst.instrument_type) \in {"motor control", "motor"}

\* the equipment tags that already have a motor instrument
existing_motor_tags(insts) ==
    UNION {Range(normalize_equipment_tag(insts[k].equipment_tag)) :
           k \in {j \in DOMAIN insts : IsMotorInstrument(insts[j])}}

\* an instrument that carries the source_type value as its extraction_source
new_inst_AutoGenerated(eq, io_signals, id) ==
    [instrument_id |-> id,
     equipment_tag |-> eq.tag,
     instrument_type |-> "Motor Control",
     tag |-> [full_tag |-> eq.tag \o <<"-", "M">>, variable |-> <<>>, functions |-> {"M"}],
     io_signals |-> io_signals,
     provenance |-> [source_type |-> "auto_generated",
                     extraction_source |-> "auto_generated"]]

new_inst(eq, io_signals, id) ==
    [instrument_id |-> id,
     equipment_tag |-> eq.tag,
     instrument_type |-> "Motor Control",
     tag |-> [full_tag |-> eq.tag \o <<"-", "M">>,
              variable |-> <<>>,
              function |-> <<"M">>,
              functions |-> {"M"},
              area |-> Get(eq, "area", <<>>),
              loop_number |-> <<>>,
              suffix |-> <<"M">>,
              analyte |-> NoneStr],
     service_description |-> <<"Motor control for ", Get(eq, "description", eq.tag)>>,
     io_signals |-> io_signals,
     primary_signal_type |-> NoneStr,
     provenance |-> [source_type |-> "auto_generated",
                     extraction_source |-> "motor_instrument_gen",
                     confidence |-> 1]]

\* whether the loop body of generate_motor_instruments reaches the pattern lookup
MotorCandidate(eq, existing) ==
    /\ feeder_upper_strip(eq.feeder_type) # ""
    /\ extract_equipment_type(eq.tag) \in EquipmentCodes
    /\ \A nt \in Range(normalize_equipment_tag(eq.tag)) : nt \notin existing
    /\ get_pattern_for_equipment(eq)[1] # NoneStr

\* the pattern the loop body looks up for an equipment
motor_pattern(eq, table) == PatternGet(table, get_pattern_for_equipment(eq)[1])

\* the positions of the equipment list at which the loop body appends an instrument
generating(list, table, existing) ==
    {i \in DOMAIN list :
        MotorCandidate(list[i], existing) /\ Truthy(motor_pattern(list[i], table))}

\* the positions at which it warns that the pattern is not in the table
not_found(list, table, existing) ==
    {i \in DOMAIN list :
        MotorCandidate(list[i], existing) /\ ~Truthy(motor_pattern(list[i], table))}

\* the k-th smallest member of a set of positions
Nth(S, k) == CHOOSE i \in S : Cardinality({j \in S : j <= i}) = k

RECURSIVE uuids_before(_, _, _, _)
\* the uuid4() calls made when the loop reaches position i: one per signal and one
\* per instrument appended before it
uuids_before(list, table, gen, i) ==
    IF i = 1 THEN 0
    ELSE uuids_before(list, table, gen, i - 1)
         + (IF (i - 1) \in gen
            THEN Len(Get(motor_pattern(list[i - 1], table), "signals", <<>>)) + 1
            ELSE 0)

\* the instrument appended once the signals are generated
with_signals(eq, io_signals, n) == new_inst(eq, io_signals, uuid4(n + Len(io_signals)))

\* the signals and the instrument of an equipment whose lookup gave resolved
motor_instrument_of(eq, resolved, table, n) ==
    with_signals(eq,
                 stamp(generate_io_signals(PatternGet(table, resolved[1]),
                                           eq.tag \o <<"-", "M">>, resolved[2], n),
                       resolved[1]),
                 n)

\* the instrument the loop body appends for an equipment, after n uuid4() calls
motor_instrument(eq, table, n) ==
    motor_instrument_of(eq, get_pattern_for_equipment(eq), table, n)

\* the return value of the loop, given the positions gen that append an instrument
\* and the positions bad that warn
motor_loop(list, table, uuids, gen, bad) ==
    [appended |->
        [k \in 1..Cardinality(gen) |->
            motor_instrument(list[Nth(gen, k)], table,
                             uuids + uuids_before(list, table, gen, Nth(gen, k)))],
     warnings |->
        [k \in 1..Cardinality(bad) |->
            [kind |-> "motor_pattern_not_found",
             pattern |-> get_pattern_for_equipment(list[Nth(bad, k)])[1],
             tag |-> list[Nth(bad, k)].tag]],
     uuids |-> uuids + uuids_before(list, table, gen, Len(list) + 1)]

motor_loop_over(list, table, uuids, existing) ==
    motor_loop(list, table, uuids, generating(list, table, existing),
               not_found(list, table, existing))

\* (the instruments appended, the warnings, the uuid4() calls made): the loop over
\* the equipment list, position by position
generate_motor_instruments(list, insts, table, uuids) ==
    motor_loop_over(list, table, uuids, existing_motor_tags(insts))

(***************************************************************************)
(* apply_io_patterns.py: apply_patterns, the alias index.                  *)
(***************************************************************************)
\* d[k] = v
setitem(d, k, v) == (k :> v) @@ d

\* setdefault that overwrites
setdefault_Overwrite(d, k, v) == (k :> v) @@ d

\* d.setdefault(k, v)
setdefault(d, k, v) == IF k \in DOMAIN d THEN d ELSE d @@ (k :> v)

RECURSIVE setdefault_all(_, _, _)
\* for k in keys: d.setdefault(k, v)
setdefault_all(d, keys, v) ==
    IF Len(keys) = 0 THEN d
    ELSE setdefault_all(setdefault(d, keys[1], v), Tail(keys), v)

\* the inferred siblings, registered when the quantity and its note ask for them
register_siblings(d, tag, quantity, qty_note, i) ==
    IF quantity >= 2 /\ NoteHasS(qty_note) /\ sibling_match(tag)
    THEN setdefault_all(d, SiblingTags(tag, quantity), i)
    ELSE d

\* the expansion of a paired tag, registered when the whole tag is one
register_paired(d, tag, i) ==
    IF paired_tag_match(tag) THEN setdefault_all(d, PairedTags(tag), i) ELSE d

\* the stripped base tags
register_normalized(d, tag, i) == setdefault_all(d, normalize_equipment_tag(tag), i)

register_tag(d, eq, tag, i) ==
    register_siblings(register_paired(register_normalized(setitem(d, tag, i), tag, i),
                                      tag, i),
                      tag, Get(eq, "quantity", 1), Get(eq, "quantity_note", <<>>), i)

\* the body of the loop that builds equipment_map, for the equipment at position i
register_equipment(d, list, i) ==
    IF list[i].tag = <<>> THEN d ELSE register_tag(d, list[i], list[i].tag, i)

(***************************************************************************)
(* apply_io_patterns.py: apply_patterns, Phase 0 (dedup).                  *)
(***************************************************************************)
\* the full_tag the dedup pass reads from an instrument
ft_of(inst) == inst.tag.full_tag

\* dedup that keeps the last occurrence of a full_tag
seen_tags_KeepLast(insts) ==
    [ft \in {ft_of(insts[k]) : k \in {j \in DOMAIN insts : ft_of(insts[j]) # <<>>}} |->
        Max({k \in DOMAIN insts : ft_of(insts[k]) = ft})]

\* seen_tags after the first loop: each non-empty full_tag -> the position of its
\* first occurrence
seen_tags(insts) ==
    [ft \in {ft_of(insts[k]) : k \in {j \in DOMAIN insts : ft_of(insts[j]) # <<>>}} |->
        Min({k \in DOMAIN insts : ft_of(insts[k]) = ft})]

\* dedup_removed after the first loop: the occurrences that found their tag seen
count_removed(insts) ==
    Cardinality({k \in DOMAIN insts :
                    /\ ft_of(insts[k]) # <<>>
                    /\ \E j \in 1..(k - 1) : ft_of(insts[j]) = ft_of(insts[k])})

RECURSIVE keep_seen(_, _, _)
\* the list comprehension that rebuilds database["instruments"], from position i on
keep_seen(insts, seen, i) ==
    IF i > Len(insts) THEN <<>>
    ELSE (IF ft_of(insts[i]) \notin DOMAIN seen \/ seen[ft_of(insts[i])] = i
          THEN <<insts[i]>> ELSE <<>>)
         \o keep_seen(insts, seen, i + 1)

dedup(insts) ==
    IF count_removed(insts) > 0 THEN keep_seen(insts, seen_tags(insts), 1) ELSE insts

(***************************************************************************)
(* apply_io_patterns.py: apply_patterns, Phase 2 (pattern application).    *)
(***************************************************************************)
FIELD_TYPES == {"transmitter", "analyzer", "switch", "indicator", "gauge"}

FIELD_VARIABLES ==
    {<<"P">>, <<"T">>, <<"L">>, <<"F">>, <<"A">>, <<"S">>, <<"C">>, <<"Q">>}

is_field_instrument(inst) ==
    \/ lower(inst.instrument_type) \in FIELD_TYPES
    \/ inst.tag.variable \in FIELD_VARIABLES
    \/ \E f \in {"I", "T", "S"} : f \in inst.tag.functions

\* the first hit of equipment_map.get over the sequence of keys, or 0
first_mapped(d, keys) ==
    IF \E k \in DOMAIN keys : keys[k] \in DOMAIN d
    THEN d[keys[Min({k \in DOMAIN keys : keys[k] \in DOMAIN d})]]
    ELSE 0

\* the equipment the instrument resolves to: a position in the list, or 0
find_equipment(d, equipment_tag) ==
    IF equipment_tag = <<>> THEN 0
    ELSE IF equipment_tag \in DOMAIN d THEN d[equipment_tag]
    ELSE first_mapped(d, normalize_equipment_tag(equipment_tag))

\* a marker test on the source_type value
is_generated_motor_AutoGenerated(inst) ==
    inst.provenance.extraction_source = "auto_generated"

\* the marker test that opens the loop body
is_generated_motor(inst) == inst.provenance.extraction_source = "motor_instrument_gen"

\* what one iteration of the Phase 2 loop leaves: the instrument, the branch taken,
\* the warnings added and the uuid4() calls made
Outcome(inst, path, w, n) == [inst |-> inst, path |-> path, warnings |-> w, uuids |-> n]

\* inst["io_signals"] = io_signals
assign_signals(inst, io_signals, path, w, uuids) ==
    Outcome([inst EXCEPT !.io_signals = io_signals], path, w, uuids + Len(io_signals))

\* the field fallback, reached with the warnings w of the equipment branch
fallback(inst, fallback_pattern_name, table, w, uuids) ==
    IF fallback_pattern_name # NoneStr /\ Truthy(PatternGet(table, fallback_pattern_name))
    THEN assign_signals(inst,
                        stamp(generate_io_signals(PatternGet(table, fallback_pattern_name),
                                                  inst.tag.full_tag, "Direct", uuids),
                              fallback_pattern_name),
                        "fallback", w, uuids)
    ELSE IF fallback_pattern_name # NoneStr
         THEN Outcome(inst, "none",
                      w \o <<[kind |-> "inferred_pattern_not_found",
                              pattern |-> fallback_pattern_name,
                              tag |-> inst.tag.full_tag]>>, uuids)
    ELSE Outcome(inst, "none", w, uuids)

\* the equipment branch, given the lookup of the equipment's pattern
equipment_branch(inst, resolved, table, uuids) ==
    IF resolved[1] # NoneStr /\ Truthy(PatternGet(table, resolved[1]))
    THEN assign_signals(inst,
                        stamp(generate_io_signals(PatternGet(table, resolved[1]),
                                                  inst.tag.full_tag, resolved[2], uuids),
                              resolved[1]),
                        "equipment", <<>>, uuids)
    ELSE fallback(inst, infer_field_instrument_pattern(inst), table,
                  IF resolved[1] # NoneStr
                  THEN <<[kind |-> "pattern_not_found", pattern |-> resolved[1]]>>
                  ELSE <<>>,
                  uuids)

\* a loop body that takes the equipment branch for field instruments too
apply_to_FieldToo(inst, equipment, list, table, uuids) ==
    IF equipment # 0
    THEN equipment_branch(inst, get_pattern_for_equipment(list[equipment]), table, uuids)
    ELSE fallback(inst, infer_field_instrument_pattern(inst), table, <<>>, uuids)

\* the rest of the loop body once the equipment is found (a position, or 0)
apply_to(inst, equipment, list, table, uuids) ==
    IF equipment # 0 /\ ~is_field_instrument(inst)
    THEN equipment_branch(inst, get_pattern_for_equipment(list[equipment]), table, uuids)
    ELSE fallback(inst, infer_field_instrument_pattern(inst), table, <<>>, uuids)

\* the body of the Phase 2 loop for one instrument
phase2_body(inst, d, list, table, uuids) ==
    IF is_generated_motor(inst) THEN Outcome(inst, "generated", <<>>, uuids)
    ELSE IF Len(inst.io_signals) > 0 THEN Outcome(inst, "existing", <<>>, uuids)
    ELSE IF is_local_instrument(inst) THEN Outcome(inst, "local", <<>>, uuids)
    ELSE apply_to(inst, find_equipment(d, inst.equipment_tag), list, table, uuids)

\* the warnings of the feeder_type check that follows the index
missing_feeder_warnings(list) ==
    LET missing == {k \in DOMAIN list :
                       /\ list[k].feeder_type = ""
                       /\ extract_equipment_type(list[k].tag) \in EquipmentCodes}
        F[k \in 0..Len(list)] ==
            IF k = 0 THEN <<>>
            ELSE IF k \in missing
                 THEN Append(F[k - 1], [kind |-> "missing_feeder_type", tag |-> list[k].tag])
                 ELSE F[k - 1]
    IN F[Len(list)]

(***************************************************************************)
(* apply_io_patterns.py: the run of apply_patterns.  The index is built    *)
(* one equipment per step, Phase 2 runs one instrument per step.           *)
(***************************************************************************)
T(a, b, c) == a \o <<"-">> \o b \o <<"-">> \o c

Equipment(tag, feeder_type) == [tag |-> tag, feeder_type |-> feeder_type]

Tag_300_P_01 == T(<<"3", "0", "0">>, <<"P">>, <<"0", "1">>)
Tag_202_B_01 == T(<<"2", "0", "2">>, <<"B">>, <<"0", "1">>)
Tag_202_B_02 == T(<<"2", "0", "2">>, <<"B">>, <<"0", "2">>)
Tag_102_G_01 == T(<<"1", "0", "2">>, <<"G">>, <<"0", "1">>)
Tag_102_G_02 == T(<<"1", "0", "2">>, <<"G">>, <<"0", "2">>)
Tag_401_F_01 == T(<<"4", "0", "1">>, <<"F">>, <<"0", "1">>)
Tag_401_F_02 == T(<<"4", "0", "1">>, <<"F">>, <<"0", "2">>)
Tag_SM_02 == <<"S", "M", "-", "0", "2">>

\* '202-B-01/02'
Tag_202_B_01_02 == Tag_202_B_01 \o <<"/", "0", "2">>

\* 'SM-02, 401-F-01/02'
Tag_SM_02_401_F_01_02 == Tag_SM_02 \o <<",", " ">> \o Tag_401_F_01 \o <<"/", "0", "2">>

\* 'W500-P-1/02/3'
Tag_W500_P_1_02_3 ==
    T(<<"W", "5", "0", "0">>, <<"P">>, <<"1">>) \o <<"/", "0", "2", "/", "3">>

EquipmentPool ==
    {Equipment(Tag_300_P_01, "VFD"),
     Equipment(Tag_202_B_01_02, "DOL"),
     Equipment(Tag_202_B_02, "vfd "),
     Equipment(Tag_SM_02_401_F_01_02, "dol"),
     [tag |-> Tag_102_G_01, feeder_type |-> "", quantity |-> 2,
      quantity_note |-> <<"1", "W", "+", "1", "s">>, area |-> <<"1", "0", "2">>],
     Equipment(Tag_W500_P_1_02_3, "XYZ")}

Template(suffix) == [suffix |-> suffix, function |-> "Status", io_type |-> "DI"]

PatternTables ==
    {("pump_vfd" :> [signals |-> <<Template(<<"R", "U", "N">>)>>])
     @@ ("pump_dol" :> [signals |-> <<Template(<<"R", "U", "N">>), Template(<<>>),
                                      [io_type |-> "DO"]>>])
     @@ ("transmitter_4_20" :> [signals |-> <<[suffix |-> <<"P", "V">>, io_type |-> "AI",
                                               signal_type |-> "4-20mA"]>>]),
     ("pump_vfd" :> [signals |-> <<>>])
     @@ ("pump_dol" :> <<>>)
     @@ ("valve_onoff_electric" :> [description |-> "on/off valve"])}

Instrument(full_tag, equipment_tag, instrument_type, variable, functions, io_signals) ==
    [equipment_tag |-> equipment_tag, instrument_type |-> instrument_type,
     tag |-> [full_tag |-> full_tag, variable |-> variable, functions |-> functions],
     io_signals |-> io_signals, provenance |-> [extraction_source |-> "pid"]]

Tag_200_FIT_01 == T(<<"2", "0", "0">>, <<"F", "I", "T">>, <<"0", "1">>)

\* a signal the database already holds
ExistingSignal == [io_point_id |-> <<"io", 1>>, plc_tag |-> Tag_200_FIT_01,
                   pattern_source |-> "manual"]

InstrumentPool ==
    {Instrument(Tag_200_FIT_01, Tag_300_P_01, "Transmitter", <<"F">>, {"I", "T"}, <<>>),
     Instrument(Tag_200_FIT_01, <<>>, "", <<"F">>, {"I", "T"}, <<ExistingSignal>>),
     Instrument(Tag_300_P_01 \o <<"-", "M">>, Tag_300_P_01, "", <<>>, {}, <<>>),
     [Instrument(<<>>, Tag_202_B_02 \o <<"/", "0", "3">>, "Motor", <<>>, {"M"}, <<>>)
        EXCEPT !.provenance = [extraction_source |-> "auto_generated"]],
     Instrument(<<"X", "V", "-", "0", "1">>, Tag_102_G_02, "", <<"X">>, {"V"}, <<>>),
     Instrument(T(<<"2", "0", "0">>, <<"P", "G">>, <<"0", "1">>), Tag_401_F_02, "",
                <<"P">>, {"G"}, <<>>)}

InitRun(lists, dbs) ==
    /\ equipment_list \in lists
    /\ patterns \in PatternTables
    /\ db_in \in dbs
    /\ instruments = db_in
    /\ equipment_map = <<>>
    /\ warnings = <<>>
    /\ eq_i = 1
    /\ inst_i = 1
    /\ dedup_removed = 0
    /\ motor_count = 0
    /\ applied_count = 0
    /\ skipped_count = 0
    /\ field_fallback_count = 0
    /\ uuid_next = 0
    /\ paths = <<>>
    /\ pc = IF equipment_list = <<>> THEN "check_feeder" ELSE "build_map"
    /\ args = <<>>
    /\ ret = <<>>

\* the equipment that decides Phase 1: a pump on a VFD, a paired blower on DOL, a
\* pump on a feeder type no table lists, and a grinder without feeder type
MotorEquipment ==
    {e \in EquipmentPool :
        e.tag \in {Tag_300_P_01, Tag_202_B_01_02, Tag_W500_P_1_02_3, Tag_102_G_01}}

\* the instruments that decide Phase 2: a transmitter, an instrument that has its
\* signals, a motor instrument and a valve on an inferred sibling
FieldInstruments ==
    {i \in InstrumentPool :
        i.tag.full_tag \in {Tag_200_FIT_01, Tag_300_P_01 \o <<"-", "M">>,
                            <<"X", "V", "-", "0", "1">>}}

\* runs over equipment lists and instrument lists
InitApply ==
    InitRun(SeqsUpTo(MotorEquipment, MaxEq), SeqsUpTo(FieldInstruments, MaxInst))

\* runs over all the equipment lists, on an empty database
InitIndex == InitRun(SeqsUpTo(EquipmentPool, MaxEq), {<<>>})

\* runs over all the instrument lists, on at most one equipment
InitDedup ==
    InitRun({<<>>, <<Equipment(Tag_300_P_01, "VFD")>>}, SeqsUpTo(InstrumentPool, MaxDup))

\* one iteration of the loop that builds equipment_map
BuildEquipmentMap ==
    /\ pc = "build_map"
    /\ equipment_map' = register_equipment(equipment_map, equipment_list, eq_i)
    /\ eq_i' = eq_i + 1
    /\ pc' = IF eq_i = Len(equipment_list) THEN "check_feeder" ELSE "build_map"
    /\ UNCHANGED <<args, ret, equipment_list, patterns, db_in, instruments, warnings,
                   inst_i, dedup_removed, motor_count, applied_count, skipped_count,
                   field_fallback_count, uuid_next, paths>>

\* the loop that warns of a missing feeder_type
CheckFeederTypes ==
    /\ pc = "check_feeder"
    /\ warnings' = warnings \o missing_feeder_warnings(equipment_list)
    /\ pc' = "dedup"
    /\ UNCHANGED <<args, ret, equipment_list, patterns, db_in, instruments,
                   equipment_map, eq_i, inst_i, dedup_removed, motor_count,
                   applied_count, skipped_count, field_fallback_count, uuid_next, paths>>

\* Phase 0
Dedup ==
    /\ pc = "dedup"
    /\ dedup_removed' = count_removed(instruments)
    /\ instruments' = dedup(instruments)
    /\ pc' = "motor"
    /\ UNCHANGED <<args, ret, equipment_list, patterns, db_in, equipment_map, warnings,
                   eq_i, inst_i, motor_count, applied_count, skipped_count,
                   field_fallback_count, uuid_next, paths>>

\* Phase 1
GenerateMotorInstruments ==
    /\ pc = "motor"
    /\ \E r \in {generate_motor_instruments(equipment_list, instruments, patterns,
                                             uuid_next)} :
          /\ instruments' = instruments \o r.appended
          /\ motor_count' = Len(r.appended)
          /\ warnings' = warnings \o r.warnings
          /\ uuid_next' = r.uuids
          /\ pc' = IF Len(instruments) + Len(r.appended) = 0 THEN "done" ELSE "phase2"
    /\ inst_i' = 1
    /\ UNCHANGED <<args, ret, equipment_list, patterns, db_in, equipment_map, eq_i,
                   dedup_removed, applied_count, skipped_count, field_fallback_count,
                   paths>>

\* Phase 2, one iteration of the loop over the instruments
ApplyPattern ==
    /\ pc = "phase2"
    /\ \E r \in {phase2_body(instruments[inst_i], equipment_map, equipment_list,
                              patterns, uuid_next)} :
          /\ instruments' = [instruments EXCEPT ![inst_i] = r.inst]
          /\ paths' = Append(paths, r.path)
          /\ warnings' = warnings \o r.warnings
          /\ uuid_next' = r.uuids
          /\ applied_count' = applied_count + (IF r.path = "equipment" THEN 1 ELSE 0)
          /\ skipped_count' = skipped_count + (IF r.path = "existing" THEN 1 ELSE 0)
          /\ field_fallback_count' =
                 field_fallback_count + (IF r.path = "fallback" THEN 1 ELSE 0)
    /\ inst_i' = inst_i + 1
    /\ pc' = IF inst_i = Len(instruments) THEN "done" ELSE "phase2"
    /\ UNCHANGED <<args, ret, equipment_list, patterns, db_in, equipment_map, eq_i,
                   dedup_removed, motor_count>>

NextApply ==
    \/ BuildEquipmentMap
    \/ CheckFeederTypes
    \/ Dedup
    \/ GenerateMotorInstruments
    \/ ApplyPattern

SpecApply == InitApply /\ [][NextApply]_vars

SpecIndex == InitIndex /\ [][NextApply]_vars

SpecDedup == InitDedup /\ [][NextApply]_vars

(***************************************************************************)
(* Claims on the alias index.                                              *)
(***************************************************************************)

\* C3 as stated: while equipment_map is built, a key that is mapped keeps the
\* equipment it maps to, whatever a later equipment registers, its own raw tag
\* included (an equipment entry equal to the mapped one counts as the same).
C3_FirstWriteWins ==
    [][\A k \in DOMAIN equipment_map :
          /\ k \in DOMAIN equipment_map'
          /\ equipment_list[equipment_map'[k]] = equipment_list[equipment_map[k]]]_vars

\* C3, amended: a mapped key stays mapped, and the one registration that changes
\* the equipment it maps to is that of a later equipment's own raw tag, which maps
\* the key to that later equipment; no registration of a stripped base, an expanded
\* sibling or an inferred sibling changes a mapped key.
C3_AliasesNeverOverwrite ==
    [][\A k \in DOMAIN equipment_map :
          /\ k \in DOMAIN equipment_map'
          /\ equipment_map'[k] # equipment_map[k] =>
                /\ pc = "build_map"
                /\ k = equipment_list[eq_i].tag
                /\ equipment_map'[k] = eq_i]_vars

\* a later paired equipment has expanded to a key an earlier equipment holds, and
\* the key still maps to the earlier one
C3_Witness ==
    /\ pc = "check_feeder"
    /\ Len(equipment_list) = 2
    /\ paired_tag_match(equipment_list[2].tag)
    /\ \E k \in Range(PairedTags(equipment_list[2].tag)) :
          /\ k # equipment_list[2].tag
          /\ k = equipment_list[1].tag
          /\ equipment_map[k] = 1

\* the comma-separated parts of a tag, stripped
Parts(tag) == StripEach(split(tag, ","))

\* C4 as stated, in its weakest reading: once the index is built, for every
\* equipment and every comma-separated part of its tag that has the paired form,
\* each sequence number of the part, zero-padded to the widest of the group, is a
\* key of the index.
C4_EveryPartExpanded ==
    pc # "build_map" =>
        \A i \in DOMAIN equipment_list :
            \A p \in Range(Parts(equipment_list[i].tag)) :
                paired_tag_match(p) =>
                    \A k \in Range(PairedTags(p)) : k \in DOMAIN equipment_map

(***************************************************************************)
(* Claims on Phase 0.                                                      *)
(***************************************************************************)
\* the positions of the loaded list that hold the first occurrence of their
\* full_tag, or an empty full_tag
FirstOccurrences ==
    {k \in DOMAIN db_in :
        \/ db_in[k].tag.full_tag = <<>>
        \/ \A j \in 1..(k - 1) : db_in[j].tag.full_tag # db_in[k].tag.full_tag}

\* C9: after the dedup pass the instruments are the first occurrences of the
\* loaded list (every instrument with an empty or unique full_tag, and of the
\* instruments that share a full_tag the one of lowest index), in their original
\* order, and dedup_removed is the number of records removed.
C9_DedupKeepsFirst ==
    pc = "motor" =>
        /\ Len(instruments) = Cardinality(FirstOccurrences)
        /\ \A n \in DOMAIN instruments : instruments[n] = db_in[Nth(FirstOccurrences, n)]
        /\ dedup_removed = Len(db_in) - Len(instruments)

\* two different records share a full_tag around a record with another one, and
\* the pass has removed the later of the two
C9_Witness ==
    /\ pc = "motor"
    /\ Len(db_in) = 3
    /\ db_in[1].tag.full_tag = db_in[3].tag.full_tag
    /\ db_in[1].tag.full_tag # <<>>
    /\ db_in[1] # db_in[3]
    /\ db_in[2].tag.full_tag # db_in[1].tag.full_tag
    /\ instruments = <<db_in[1], db_in[2]>>
    /\ dedup_removed = 1

(***************************************************************************)
(* Claims on Phases 1 and 2.                                               *)
(***************************************************************************)
\* the number of instruments that precede the ones Phase 1 appended
FirstAppended == Len(instruments) - motor_count

\* the instruments the database held when Phase 1 ran
Preexisting == [k \in 1..FirstAppended |-> instruments[k]]

\* the equipment has a motor instrument among them
HasMotorInstrument(eq) ==
    \E k \in DOMAIN Preexisting :
        /\ IsMotorInstrument(Preexisting[k])
        /\ Range(normalize_equipment_tag(Preexisting[k].equipment_tag))
               \cap Range(normalize_equipment_tag(eq.tag)) # {}

\* a non-empty feeder type, a recognised type code, a pattern that resolves, and no
\* motor instrument yet
Motorized(eq) ==
    /\ feeder_upper_strip(eq.feeder_type) # ""
    /\ extract_equipment_type(eq.tag) \in EquipmentCodes
    /\ get_pattern_for_equipment(eq)[1] # NoneStr
    /\ ~HasMotorInstrument(eq)

\* the k-th signal is the one of the k-th template of the pattern, on the motor tag
SignalOfTemplate(sig, template, motor_tag, pattern_name) ==
    /\ sig.plc_tag = IF Get(template, "suffix", <<>>) # <<>>
                     THEN motor_tag \o <<"-">> \o template.suffix
                     ELSE motor_tag
    /\ sig.pattern_source = pattern_name

\* the instrument is the motor instrument of the equipment
MotorInstrumentOf(inst, eq, pattern_name, templates) ==
    /\ inst.tag.full_tag = eq.tag \o <<"-", "M">>
    /\ Len(inst.io_signals) = Len(templates)
    /\ \A k \in DOMAIN templates :
          SignalOfTemplate(inst.io_signals[k], templates[k], eq.tag \o <<"-", "M">>,
                           pattern_name)

\* one instrument per position of Q, in the order of the equipment list
OnePerEquipment(Q) ==
    /\ motor_count = Cardinality(Q)
    /\ \A n \in 1..Cardinality(Q) :
          MotorInstrumentOf(instruments[FirstAppended + n], equipment_list[Nth(Q, n)],
                            get_pattern_for_equipment(equipment_list[Nth(Q, n)])[1],
                            Get(patterns[get_pattern_for_equipment(
                                             equipment_list[Nth(Q, n)])[1]],
                                "signals", <<>>))

\* C6 as stated: once Phase 1 has run, every equipment with a non-empty feeder
\* type, a recognised type code, a resolvable pattern that is a key of the pattern
\* table and no motor instrument has exactly one appended instrument '<tag>-M', with
\* one signal per template, in template order, tagged '<tag>-M-<suffix>' ('<tag>-M'
\* for an empty suffix) and stamped with the pattern name.
C6_MotorSynthesisForListedPattern ==
    pc \in {"phase2", "done"} =>
        OnePerEquipment({i \in DOMAIN equipment_list :
                            /\ Motorized(equipment_list[i])
                            /\ get_pattern_for_equipment(equipment_list[i])[1]
                                   \in DOMAIN patterns})

\* C6, amended: the same, for the equipment whose pattern is a key of the pattern
\* table with a non-empty definition.
C6_MotorSynthesis ==
    pc \in {"phase2", "done"} =>
        OnePerEquipment({i \in DOMAIN equipment_list :
                            /\ Motorized(equipment_list[i])
                            /\ Truthy(PatternGet(patterns,
                                   get_pattern_for_equipment(equipment_list[i])[1]))})

\* the run on 300-P-01/VFD, an empty database and pump_vfd = [RUN] has ended with
\* one instrument 300-P-01-M and one signal 300-P-01-M-RUN stamped pump_vfd
C6_Witness ==
    /\ pc = "done"
    /\ equipment_list = <<Equipment(Tag_300_P_01, "VFD")>>
    /\ db_in = <<>>
    /\ Len(instruments) = 1
    /\ instruments[1].tag.full_tag = Tag_300_P_01 \o <<"-", "M">>
    /\ Len(instruments[1].io_signals) = 1
    /\ instruments[1].io_signals[1].plc_tag = Tag_300_P_01 \o <<"-", "M", "-", "R", "U", "N">>
    /\ instruments[1].io_signals[1].pattern_source = "pump_vfd"

\* what Phase 1 appends to the deduplicated database
Phase1Appended ==
    generate_motor_instruments(equipment_list, dedup(db_in), patterns, 0).appended

\* the instruments Phase 2 has left by the given branch, among the first n
LeftBy(path, n) == Cardinality({j \in DOMAIN paths : j <= n /\ paths[j] = path})

\* C7: the phases run in the order dedup, motor synthesis, pattern application;
\* Phase 2 leaves every instrument Phase 1 appended as Phase 1 made it (its
\* io_signals included, also when empty), leaves the loop body for it at the marker
\* test, before the classifier and the equipment path, and counts it neither as
\* applied nor as skipped.
C7_PhaseOrder ==
    /\ pc \in {"build_map", "check_feeder", "dedup"} =>
          instruments = db_in /\ motor_count = 0 /\ paths = <<>>
    /\ pc = "motor" =>
          instruments = dedup(db_in) /\ motor_count = 0 /\ paths = <<>>
    /\ pc \in {"phase2", "done"} =>
          /\ FirstAppended = Len(dedup(db_in))
          /\ motor_count = Len(Phase1Appended)
          /\ \A n \in 1..motor_count : instruments[FirstAppended + n] = Phase1Appended[n]
          /\ \A j \in DOMAIN paths : j > FirstAppended => paths[j] = "generated"
          /\ applied_count = LeftBy("equipment", FirstAppended)
          /\ skipped_count = LeftBy("existing", FirstAppended)
          /\ field_fallback_count = LeftBy("fallback", FirstAppended)
    /\ pc = "done" => Len(paths) = Len(instruments)

\* the run has ended after Phase 1 appended an instrument without signals, behind
\* a loaded instrument that Phase 2 gave signals
C7_Witness ==
    /\ pc = "done"
    /\ motor_count >= 1
    /\ FirstAppended >= 1
    /\ applied_count + field_fallback_count >= 1
    /\ \E n \in 1..motor_count :
          /\ paths[FirstAppended + n] = "generated"
          /\ instruments[FirstAppended + n].io_signals = <<>>

\* C8 as stated: every instrument the motor synthesizer appended has
\* instrument_type 'Motor Control' and provenance.extraction_source
\* 'auto_generated'.
C8_MarkerAutoGenerated ==
    pc \in {"phase2", "done"} =>
        \A n \in 1..motor_count :
            /\ instruments[FirstAppended + n].instrument_type = "Motor Control"
            /\ instruments[FirstAppended + n].provenance.extraction_source
                   = "auto_generated"

\* C8, amended: every instrument the motor synthesizer appended has
\* instrument_type 'Motor Control', provenance.source_type 'auto_generated' and
\* provenance.extraction_source 'motor_instrument_gen', and Phase 2 excludes
\* exactly the instruments whose provenance.extraction_source is
\* 'motor_instrument_gen'.
C8_MarkerMotorInstrumentGen ==
    pc \in {"phase2", "done"} =>
        /\ \A n \in 1..motor_count :
              /\ instruments[FirstAppended + n].instrument_type = "Motor Control"
              /\ instruments[FirstAppended + n].provenance.source_type = "auto_generated"
              /\ instruments[FirstAppended + n].provenance.extraction_source
                     = "motor_instrument_gen"
        /\ \A j \in DOMAIN paths :
              paths[j] = "generated"
                  <=> instruments[j].provenance.extraction_source = "motor_instrument_gen"

\* the run has ended: Phase 2 has excluded an appended instrument and has not
\* excluded a loaded one whose extraction_source is 'auto_generated'
C8_Witness ==
    /\ pc = "done"
    /\ motor_count >= 1
    /\ paths[Len(instruments)] = "generated"
    /\ \E j \in 1..FirstAppended :
          /\ instruments[j].provenance.extraction_source = "auto_generated"
          /\ paths[j] # "generated"

(***************************************************************************)
(* The pattern resolver run: get_pattern_for_equipment on an equipment     *)
(* whose tag carries a type code, in the long, W-prefixed and short forms. *)
(***************************************************************************)
ResolverCodes == EquipmentCodes \cup {<<"Z", "Z">>, <<"X", "V">>}

ResolverFeeders ==
    {"VFD", "vfd ", "DOL", "dol", " ", "", "UNKNOWN", "XYZ", "soft-starter",
     " mod-electric", "DEFAULT", "METERING", "SOLENOID"}

\* the tags that carry the code c
TagsOf(c) ==
    {T(<<"2", "0", "0">>, c, <<"0", "1">>),
     T(<<"W", "5", "0", "1">>, c, <<"1">>),
     c \o <<"-", "0", "2">>}

InitResolver ==
    /\ pc = "resolve"
    /\ \E c \in ResolverCodes, f \in ResolverFeeders :
          \E t \in TagsOf(c) : args = [equipment |-> Equipment(t, f), code |-> c]
    /\ ret = <<NoneStr, NoneStr>>
    /\ NoApply

GetPatternForEquipment ==
    /\ pc = "resolve"
    /\ ret' = get_pattern_for_equipment(args.equipment)
    /\ pc' = "done"
    /\ UNCHANGED <<args, applyVars>>

NextResolver == GetPatternForEquipment

SpecResolver == InitResolver /\ [][NextResolver]_vars

\* the feeder table of a type code, by the rows of EQUIPMENT_PATTERN_MAP
FeederTable(c) ==
    IF c \in PumpCodes THEN PUMP_PATTERNS
    ELSE IF c \in MotorCodes THEN MOTOR_PATTERNS
    ELSE IF c \in ValveCodes THEN VALVE_PATTERNS
    ELSE IF c = <<"M", "O", "V">> THEN [DEFAULT |-> "valve_onoff_electric"]
    ELSE [DEFAULT |-> "solenoid_valve"]

\* the two-level lookup of the pattern name for code c and normalized feeder type f
TwoLevel(c, f) ==
    IF f = "" \/ c \notin EquipmentCodes THEN NoneStr
    ELSE IF f \in DOMAIN FeederTable(c) THEN FeederTable(c)[f]
    ELSE IF "DEFAULT" \in DOMAIN FeederTable(c) THEN FeederTable(c)["DEFAULT"]
    ELSE NoneStr

\* C11: for every type code c and feeder type f the resolver returns table[c] at
\* the uppercased, trimmed f when present, else table[c]['DEFAULT'] when there is
\* one, else none, and none when c is not in the table or f is empty; (P, VFD)
\* gives pump_vfd, (MOV, UNKNOWN) valve_onoff_electric and (ZZ, DOL) none.
C11_TwoLevelLookup ==
    pc = "done" =>
        /\ ret[1] = TwoLevel(args.code, feeder_upper_strip(args.equipment.feeder_type))
        /\ (ret[1] = NoneStr <=> ret[2] = NoneStr)
        /\ (args.code = <<"P">> /\ args.equipment.feeder_type = "VFD")
               => ret[1] = "pump_vfd"
        /\ (args.code = <<"M", "O", "V">> /\ args.equipment.feeder_type = "UNKNOWN")
               => ret[1] = "valve_onoff_electric"
        /\ (args.code = <<"Z", "Z">> /\ args.equipment.feeder_type = "DOL")
               => ret[1] = NoneStr

\* the resolver has fallen back to the DEFAULT entry for MOV on an unlisted feeder
C11_Witness ==
    /\ pc = "done"
    /\ args.code = <<"M", "O", "V">>
    /\ args.equipment.feeder_type = "UNKNOWN"
    /\ ret = <<"valve_onoff_electric", "UNKNOWN">>


(***************************************************************************)
(* sync_cross_refs.py: the tags an equipment list stands for.              *)
(***************************************************************************)
\* the position of the last "-" of part, or 0
LastDash(part) ==
    IF \E i \in DOMAIN part : part[i] = "-"
    THEN Max({i \in DOMAIN part : part[i] = "-"})
    ELSE 0

\* ^(.*?-)(\d+)((?:/\d+)+)$ : the ends of groups 1 and 2, or <<0, 0>>; what follows
\* group 1 holds no "-", so group 1 ends at the last "-" of part
SlashSiblingsAt(part, k, dEnd) ==
    IF k > 0 /\ dEnd > k + 1 /\ IsPairedSuffix(Slice(part, dEnd, Len(part)))
    THEN <<k, dEnd>>
    ELSE <<0, 0>>

SlashSiblingsFrom(part, k) == SlashSiblingsAt(part, k, DigitRunEnd(part, k + 1))

\* f"{prefix}{seq}" for seq in [first_seq] + [s for s in rest.split("/") if s]
SlashSiblingTags(part, m) ==
    IF m[1] = 0 THEN {}
    ELSE {Slice(part, 1, m[1]) \o seq :
            seq \in {Slice(part, m[1] + 1, m[2] - 1)}
                    \cup Range(NonEmpty(split(Slice(part, m[2], Len(part)), "/")))}

\* what one comma part adds: its slash-stripped base and its slash siblings
expand_part(part) ==
    (IF StripPairedSuffix(part) # <<>> THEN {StripPairedSuffix(part)} ELSE {})
    \cup SlashSiblingTags(part, SlashSiblingsFrom(part, LastDash(part)))

\* what one equipment tag adds: itself and what its comma parts add
expand_tag(raw) ==
    IF raw = <<>> THEN {}
    ELSE {raw} \cup UNION {expand_part(strip(part)) : part \in Range(split(raw, ","))}

_expand_equipment_tags(list) ==
    UNION {expand_tag(Get(list[i], "tag", <<>>)) : i \in DOMAIN list}

(***************************************************************************)
(* sync_cross_refs.py: the checks.  A finding is a record of the values    *)
(* its message is formatted from.                                          *)
(***************************************************************************)
\* tag_data.get("full_tag", "unknown"), for the tag records of the database
TagOf(inst) ==
    IF "tag" \in DOMAIN inst /\ "full_tag" \in DOMAIN inst.tag
    THEN inst.tag.full_tag
    ELSE <<"u", "n", "k", "n", "o", "w", "n">>

\* re.sub(r'\s*\(.*\)\s*$', '', equipment_tag).strip(): the text before the first
\* "(" that a ")" and only blanks up to the end follow
strip_description(s) ==
    LET opens == {p \in DOMAIN s :
                     /\ s[p] = "("
                     /\ \E q \in (p + 1)..Len(s) :
                           s[q] = ")" /\ \A k \in (q + 1)..Len(s) : IsSpace(s[k])}
    IN IF opens = {} THEN strip(s) ELSE strip(Slice(s, 1, Min(opens) - 1))

\* cleaned not in equipment_tags and base not in equipment_tags
unknown_equipment(cleaned, equipment_tags) ==
    cleaned \notin equipment_tags /\ StripPairedSuffix(cleaned) \notin equipment_tags

RECURSIVE equipment_ref_errors(_, _)
equipment_ref_errors(insts, equipment_tags) ==
    IF insts = <<>> THEN <<>>
    ELSE (IF Get(Head(insts), "equipment_tag", <<>>) # <<>>
             /\ unknown_equipment(strip_description(Head(insts).equipment_tag),
                                  equipment_tags)
          THEN <<[kind |-> "unknown equipment", tag |-> TagOf(Head(insts)),
                  ref |-> Head(insts).equipment_tag]>>
          ELSE <<>>)
         \o equipment_ref_errors(Tail(insts), equipment_tags)

validate_equipment_refs(insts, list) ==
    equipment_ref_errors(insts, _expand_equipment_tags(list))

\* inst.get("location", {}).get("pid_reference")
pid_reference(inst) == Get(Get(inst, "location", <<>>), "pid_reference", "")

RECURSIVE pid_ref_errors(_, _)
pid_ref_errors(insts, source_pids) ==
    IF insts = <<>> THEN <<>>
    ELSE (IF pid_reference(Head(insts)) # ""
             /\ pid_reference(Head(insts)) \notin source_pids
          THEN <<[kind |-> "pid not in source_pids", tag |-> TagOf(Head(insts)),
                  ref |-> pid_reference(Head(insts))]>>
          ELSE <<>>)
         \o pid_ref_errors(Tail(insts), source_pids)

validate_pid_refs(database) ==
    pid_ref_errors(database.instruments,
                   {Get(p, "pid_number", NoneStr) : p \in Range(database.source_pids)})


\* the finding of one loop, given its loop_key and the keys seen before it
loop_finding(loop_key, valid_loop_keys) ==
    IF loop_key = "" THEN <<[kind |-> "loop missing loop_key"]>>
    ELSE IF loop_key \in valid_loop_keys
    THEN <<[kind |-> "duplicate loop_key", loop_key |-> loop_key]>>
    ELSE <<>>

RECURSIVE loop_errors(_, _)
\* the first loop of validate_loop_keys, over the loops collection
loop_errors(loops, valid_loop_keys) ==
    IF loops = <<>> THEN <<>>
    ELSE loop_finding(Get(Head(loops), "loop_key", ""), valid_loop_keys)
         \o loop_errors(Tail(loops),
                        valid_loop_keys \cup ({Get(Head(loops), "loop_key", "")} \ {""}))

\* the keys that exactly one loop has
valid_loop_keys_Unique(loops) ==
    {Get(loops[i], "loop_key", "") : i \in DOMAIN loops}
    \ ({""} \cup {Get(loops[i], "loop_key", "") :
                     i \in {j \in DOMAIN loops :
                              \E h \in DOMAIN loops :
                                  h # j /\ Get(loops[h], "loop_key", "")
                                           = Get(loops[j], "loop_key", "")}})

\* valid_loop_keys when that loop is through
valid_loop_keys(loops) == {Get(loops[i], "loop_key", "") : i \in DOMAIN loops} \ {""}

\* the variable of the last loop that has the key
loop_variable_Last(loops, loop_key) ==
    Get(loops[Max({i \in DOMAIN loops : Get(loops[i], "loop_key", "") = loop_key})],
        "variable", <<>>)

\* loop_variables[loop_key]: the variable of the first loop that has the key
loop_variable(loops, loop_key) ==
    Get(loops[Min({i \in DOMAIN loops : Get(loops[i], "loop_key", "") = loop_key})],
        "variable", <<>>)

\* the finding of one instrument, given its loop_key
loop_ref_finding(inst, loop_key, inst_variable, loops) ==
    IF loop_key = ""
    THEN <<[kind |-> "missing loop_key", tag |-> TagOf(inst)]>>
    ELSE IF loop_key \notin valid_loop_keys(loops)
    THEN <<[kind |-> "non-existent loop_key", tag |-> TagOf(inst),
            loop_key |-> loop_key]>>
    ELSE IF loop_variable(loops, loop_key) # <<>>
            /\ inst_variable # loop_variable(loops, loop_key)
    THEN <<[kind |-> "variable mismatch", tag |-> TagOf(inst),
            variable |-> inst_variable, expected |-> loop_variable(loops, loop_key)]>>
    ELSE <<>>

RECURSIVE loop_ref_errors(_, _)
\* the second loop of validate_loop_keys, over the instruments
loop_ref_errors(insts, loops) ==
    IF insts = <<>> THEN <<>>
    ELSE loop_ref_finding(Head(insts), Get(Head(insts), "loop_key", ""),
                          Field(Get(Head(insts), "tag", <<>>), "variable"), loops)
         \o loop_ref_errors(Tail(insts), loops)

validate_loop_keys(database) ==
    loop_errors(database.loops, {}) \o loop_ref_errors(database.instruments, database.loops)

\* the io_point_ids of a list of signals, in order, the falsy ones left out
io_ids(io_signals) ==
    NonEmpty([k \in DOMAIN io_signals |-> Get(io_signals[k], "io_point_id", <<>>)])

RECURSIVE id_errors(_, _, _)
\* the inner loop of validate_io_points: ids are the ids of one instrument, seen
\* maps every id met so far to the tag it was first met in
id_errors(ids, tag, seen) ==
    IF ids = <<>> THEN <<>>
    ELSE (IF Head(ids) \in DOMAIN seen
          THEN <<[kind |-> "duplicate io_point_id", io_id |-> Head(ids), tag |-> tag,
                  also_in |-> seen[Head(ids)] ] >>
          ELSE <<>>)
         \o id_errors(Tail(ids), tag, setdefault(seen, Head(ids), tag))

RECURSIVE io_point_errors(_, _)
io_point_errors(insts, seen) ==
    IF insts = <<>> THEN <<>>
    ELSE id_errors(io_ids(Get(Head(insts), "io_signals", <<>>)), TagOf(Head(insts)), seen)
         \o io_point_errors(Tail(insts),
                            setdefault_all(seen,
                                           io_ids(Get(Head(insts), "io_signals", <<>>)),
                                           TagOf(Head(insts))))

validate_io_points(database) == io_point_errors(database.instruments, <<>>)


(***************************************************************************)
(* sync_cross_refs.py: apply_auto_fixes.                                   *)
(***************************************************************************)
\* PAIRED_SUFFIX_RE, ^(.+?)(/\d+)+$ : the end of group 1, or 0
paired_suffix_match(equip_tag) ==
    LET ends == {k \in 1..Len(equip_tag) :
                    IsPairedSuffix(Slice(equip_tag, k + 1, Len(equip_tag)))}
    IN IF ends = {} THEN 0 ELSE Min(ends)

\* ISA_TAG_RE, ^([A-Z]?\d{3,4})-([A-Z]{1,5})-(\d+)$
ISA_TAG_RE_match(equip_tag) == sibling_match(equip_tag)

\* offsets that reach six sequence numbers away
SiblingOffsets_UpToSix == <<1, -1, 2, -2, 3, -3, 4, -4, 5, -5, 6, -6>>

\* for offset in [1, -1, 2, -2]
SiblingOffsets == <<1, -1, 2, -2>>

\* f"{prefix}-{code}-{sibling_seq:0{fmt_len}d}", head being f"{prefix}-{code}-"
sibling_tag(head, seq_str, offset) ==
    head \o format_0d(int(seq_str) + offset, Len(seq_str))

\* the positions in SiblingOffsets whose sibling is a known equipment tag
sibling_hits(head, seq_str, equipment_tags) ==
    {k \in DOMAIN SiblingOffsets :
        /\ int(seq_str) + SiblingOffsets[k] >= 1
        /\ sibling_tag(head, seq_str, SiblingOffsets[k]) \in equipment_tags}

\* what the loop body leaves of one instrument: the instrument, whether it was
\* fixed, and the messages
Fixed(inst, to, how, offset) ==
    [inst |-> [inst EXCEPT !.equipment_tag = to], fix_count |-> 1,
     messages |-> <<[kind |-> "fix", tag |-> TagOf(inst), ref |-> inst.equipment_tag,
                     to |-> to, how |-> how, offset |-> offset]>>]

Untouched(inst, messages) == [inst |-> inst, fix_count |-> 0, messages |-> messages]

\* a Strategy 3 that reports every reference that reaches it
strategy3_Always(inst, equip_tag) ==
    Untouched(inst, <<[kind |-> "info", tag |-> TagOf(inst), ref |-> equip_tag]>>)

\* Strategy 3
strategy3(inst, equip_tag) ==
    IF ~ISA_TAG_RE_match(equip_tag)
    THEN Untouched(inst, <<[kind |-> "info", tag |-> TagOf(inst), ref |-> equip_tag]>>)
    ELSE Untouched(inst, <<>>)

\* a Strategy 2 that adopts the last offset that leads to a known tag
strategy2_with_Last(inst, equip_tag, head, seq_str, hits) ==
    IF hits # {}
    THEN Fixed(inst, sibling_tag(head, seq_str, SiblingOffsets[Max(hits)]),
               "sibling offset", SiblingOffsets[Max(hits)])
    ELSE strategy3(inst, equip_tag)

\* Strategy 2, hits being the offsets that lead to a known tag
strategy2_with(inst, equip_tag, head, seq_str, hits) ==
    IF hits # {}
    THEN Fixed(inst, sibling_tag(head, seq_str, SiblingOffsets[Min(hits)]),
               "sibling offset", SiblingOffsets[Min(hits)])
    ELSE strategy3(inst, equip_tag)

strategy2_at(inst, equip_tag, head, seq_str, equipment_tags) ==
    strategy2_with(inst, equip_tag, head, seq_str,
                   sibling_hits(head, seq_str, equipment_tags))

strategy2(inst, equip_tag, equipment_tags) ==
    IF ISA_TAG_RE_match(equip_tag)
    THEN strategy2_at(inst, equip_tag, Slice(equip_tag, 1, IsaPrefix(equip_tag)[1]),
                      Slice(equip_tag, IsaPrefix(equip_tag)[1] + 1, Len(equip_tag)),
                      equipment_tags)
    ELSE strategy3(inst, equip_tag)

\* a Strategy 1 that adopts the stripped base without looking it up
strategy1_Unchecked(inst, equip_tag, k, equipment_tags) ==
    IF k > 0
    THEN Fixed(inst, Slice(equip_tag, 1, k), "stripped paired suffix", 0)
    ELSE strategy2(inst, equip_tag, equipment_tags)

\* Strategy 1, k being the end of the base tag
strategy1(inst, equip_tag, k, equipment_tags) ==
    IF k > 0 /\ Slice(equip_tag, 1, k) \in equipment_tags
    THEN Fixed(inst, Slice(equip_tag, 1, k), "stripped paired suffix", 0)
    ELSE strategy2(inst, equip_tag, equipment_tags)

\* the body of the loop of apply_auto_fixes
fix_instrument(inst, equip_tag, equipment_tags) ==
    IF equip_tag = <<>> \/ equip_tag \in equipment_tags
    THEN Untouched(inst, <<>>)
    ELSE strategy1(inst, equip_tag, paired_suffix_match(equip_tag), equipment_tags)

\* the outcome of every instrument, in order
fix_outcomes(insts, equipment_tags) ==
    [k \in DOMAIN insts |->
        fix_instrument(insts[k], Get(insts[k], "equipment_tag", <<>>), equipment_tags)]

RECURSIVE Concat(_)
\* the lists of a list, one after the other
Concat(lists) == IF lists = <<>> THEN <<>> ELSE Head(lists) \o Concat(Tail(lists))

RECURSIVE Sum(_)
Sum(ns) == IF ns = <<>> THEN 0 ELSE Head(ns) + Sum(Tail(ns))

\* apply_auto_fixes, from the outcomes of its loop: the instruments as it leaves
\* them, fix_count and messages
collect_fixes(outcomes) ==
    [instruments |-> [k \in DOMAIN outcomes |-> outcomes[k].inst],
     fix_count |-> Sum([k \in DOMAIN outcomes |-> outcomes[k].fix_count]),
     messages |-> Concat([k \in DOMAIN outcomes |-> outcomes[k].messages])]

apply_auto_fixes(insts, equipment_tags) == collect_fixes(fix_outcomes(insts, equipment_tags))


(***************************************************************************)
(* sync_cross_refs.py: main.  args is the parsed command line (equipment:  *)
(* an equipment list was given and could be loaded), db_in the database as *)
(* loaded, instruments its instruments in memory, warnings is all_errors,  *)
(* ret what the run leaves: the fixes, the file it saved, the exit status. *)
(***************************************************************************)
Tag_500_P(seq) == T(<<"5", "0", "0">>, <<"P">>, seq)

\* '500-P-01/02/03'
Tag_500_P_01_02_03 == Tag_500_P(<<"0", "1">>) \o <<"/", "0", "2", "/", "0", "3">>

SyncEquipmentPool ==
    {Equipment(Tag_500_P_01_02_03, "VFD"),
     Equipment(Tag_SM_02_401_F_01_02, "DOL"),
     Equipment(Tag_500_P(<<"1", "1">>), "DOL")}

\* a tag record in the letters-area-loop order, and one in the area-letters-loop order
LettersFirst ==
    [full_tag |-> T(<<"F", "I", "T">>, <<"2", "0", "0">>, <<"0", "1">>),
     variable |-> <<"F">>, function |-> <<"I", "T">>, area |-> <<"2", "0", "0">>,
     loop_number |-> <<"0", "1">>]

AreaFirstTag ==
    [full_tag |-> Tag_200_FIT_01, variable |-> <<"F">>, function |-> <<"I", "T">>,
     area |-> <<"2", "0", "0">>, loop_number |-> <<"0", "1">>]

SyncSignal(n) == [io_point_id |-> <<"io", n>>]

SyncInstrument(tag, equipment_tag, loop_key, pid_reference_, io_signals) ==
    [tag |-> tag, equipment_tag |-> equipment_tag, loop_key |-> loop_key,
     location |-> [pid_reference |-> pid_reference_], io_signals |-> io_signals]

SyncInstrumentPool ==
    {SyncInstrument(LettersFirst, Tag_500_P(<<"0", "2">>), "L1", "PID-1",
                    <<SyncSignal(1)>>),
     SyncInstrument(AreaFirstTag, Tag_500_P(<<"0", "9">>), "L9", "",
                    <<SyncSignal(1), SyncSignal(2)>>),
     SyncInstrument([LettersFirst EXCEPT !.variable = <<"P">>, !.full_tag =
                        T(<<"P", "I", "T">>, <<"2", "0", "0">>, <<"0", "1">>)],
                    Tag_500_P(<<"0", "5">>), "L1", "PID-7", <<>>),
     SyncInstrument(LettersFirst, Tag_401_F_01 \o <<"/", "0", "2">>, "L1", "", <<>>),
     SyncInstrument([variable |-> <<"L">>],
                    <<"F", "E", "E", "D", " ", "T", "A", "N", "K", " ", "(", "N", ")">>,
                    "L2", "", <<SyncSignal(2)>>),
     SyncInstrument(LettersFirst,
                    Tag_500_P(<<"0", "3">>) \o <<" ", "(", "P", "3", ")", " ">>,
                    "L1", "PID-1", <<[io_type |-> "DI"]>>),
     [tag |-> [LettersFirst EXCEPT !.full_tag = <<>>]]}

SyncLoopsPool ==
    {<<>>,
     <<[loop_key |-> "L1", variable |-> <<"F">>]>>,
     <<[loop_key |-> "L1"], [variable |-> <<"L">>],
       [loop_key |-> "L1", variable |-> <<"P">>], [loop_key |-> "L2", variable |-> <<"L">>]>>}

SyncDatabases ==
    {[instruments |-> insts, loops |-> loops,
      source_pids |-> <<[pid_number |-> "PID-1"], [name |-> "P&ID 2"]>>] :
        insts \in SeqsUpTo(SyncInstrumentPool, MaxInst), loops \in SyncLoopsPool}

\* what main leaves untouched
syncRest == <<patterns, equipment_map, eq_i, inst_i, dedup_removed, motor_count,
              applied_count, skipped_count, field_fallback_count, uuid_next, paths>>

InitSync ==
    /\ pc = "pid_refs"
    /\ args \in [fix : BOOLEAN, equipment : BOOLEAN]
    /\ equipment_list \in SeqsUpTo(SyncEquipmentPool, MaxEq)
    /\ db_in \in SyncDatabases
    /\ instruments = db_in.instruments
    /\ warnings = <<>>
    /\ ret = [fix_count |-> 0, messages |-> <<>>, saved |-> None, status |-> None]
    /\ patterns = <<>>
    /\ equipment_map = <<>>
    /\ eq_i = 0
    /\ inst_i = 0
    /\ dedup_removed = 0
    /\ motor_count = 0
    /\ applied_count = 0
    /\ skipped_count = 0
    /\ field_fallback_count = 0
    /\ uuid_next = 0
    /\ paths = <<>>

\* the database in memory
Database == [db_in EXCEPT !.instruments = instruments]

ValidatePidRefs ==
    /\ pc = "pid_refs"
    /\ warnings' = warnings \o validate_pid_refs(Database)
    /\ pc' = IF ~args.equipment THEN "loop_keys"
             ELSE IF args.fix THEN "auto_fix" ELSE "equipment_refs"
    /\ UNCHANGED <<args, ret, equipment_list, db_in, instruments, syncRest>>

\* --fix: the fixes, and the database saved when there was one
ApplyAutoFixes ==
    /\ pc = "auto_fix"
    /\ \E r \in {apply_auto_fixes(instruments, _expand_equipment_tags(equipment_list))} :
          /\ instruments' = r.instruments
          /\ ret' = [ret EXCEPT !.fix_count = r.fix_count,
                                !.messages = r.messages,
                                !.saved = IF r.fix_count > 0
                                           THEN [db_in EXCEPT !.instruments =
                                                                   r.instruments]
                                           ELSE None]
    /\ pc' = "equipment_refs"
    /\ UNCHANGED <<args, equipment_list, db_in, warnings, syncRest>>

ValidateEquipmentRefs ==
    /\ pc = "equipment_refs"
    /\ warnings' = warnings \o validate_equipment_refs(instruments, equipment_list)
    /\ pc' = "loop_keys"
    /\ UNCHANGED <<args, ret, equipment_list, db_in, instruments, syncRest>>

ValidateLoopKeys ==
    /\ pc = "loop_keys"
    /\ warnings' = warnings \o validate_loop_keys(Database)
    /\ pc' = "io_points"
    /\ UNCHANGED <<args, ret, equipment_list, db_in, instruments, syncRest>>

ValidateIoPoints ==
    /\ pc = "io_points"
    /\ warnings' = warnings \o validate_io_points(Database)
    /\ pc' = "tag_consistency"
    /\ UNCHANGED <<args, ret, equipment_list, db_in, instruments, syncRest>>

ValidateTagConsistency ==
    /\ pc = "tag_consistency"
    /\ warnings' = warnings \o validate_tag_consistency(instruments)
    /\ pc' = "summary"
    /\ UNCHANGED <<args, ret, equipment_list, db_in, instruments, syncRest>>

\* sys.exit(1) if all_errors else sys.exit(0)
Summary ==
    /\ pc = "summary"
    /\ ret' = [ret EXCEPT !.status = IF warnings # <<>> THEN 1 ELSE 0]
    /\ pc' = "exit"
    /\ UNCHANGED <<args, equipment_list, db_in, instruments, warnings, syncRest>>

NextSync ==
    \/ ValidatePidRefs
    \/ ApplyAutoFixes
    \/ ValidateEquipmentRefs
    \/ ValidateLoopKeys
    \/ ValidateIoPoints
    \/ ValidateTagConsistency
    \/ Summary

SpecSync == InitSync /\ [][NextSync]_vars


(***************************************************************************)
(* C12: the exit status of a cross-reference validation run.               *)
(***************************************************************************)
\* the command line asked for strict mode; the parser of main defines the options
\* database, equipment and fix only
StrictRequested == "strict" \in DOMAIN args /\ args.strict

\* C12 as stated: a cross-reference validation run that yields one or more findings
\* ends with a failing (non-zero) status only when strict mode is requested;
\* without strict mode the findings are reported but the run does not fail.
C12_FindingsFatalOnlyWhenStrict ==
    (pc = "exit" /\ warnings # <<>>) => (ret.status # 0 => StrictRequested)


(***************************************************************************)
(* C13: references that resolve, and references out of range.              *)
(***************************************************************************)
\* the sequence numbers of a part prefix-s1/s2/.../sn
SeqNumbers(part) == split(Slice(part, LastDash(part) + 1, Len(part)), "/")

AllDigits(s) == s # <<>> /\ \A i \in DOMAIN s : IsDigit(s[i])

\* part is a compound tag prefix-s1/s2/.../sn with two sequence numbers or more
IsCompound(part) ==
    /\ LastDash(part) > 0
    /\ Len(SeqNumbers(part)) >= 2
    /\ \A i \in DOMAIN SeqNumbers(part) : AllDigits(SeqNumbers(part)[i])

\* the compound tags of the equipment list, those that are one comma part of a
\* longer tag included
CompoundTags ==
    {p \in UNION {{equipment_list[i].tag}
                  \cup Range(StripEach(split(equipment_list[i].tag, ",")))
                  : i \in DOMAIN equipment_list} : IsCompound(p)}

\* prefix-s1, ..., prefix-sn
SiblingsOf(part) ==
    {Slice(part, 1, LastDash(part)) \o SeqNumbers(part)[i] : i \in DOMAIN SeqNumbers(part)}

IndividualSiblings == UNION {SiblingsOf(p) : p \in CompoundTags}

\* the sequence numbers the equipment list knows under the prefix and code of head
KnownSeqs(head) ==
    {int(Slice(t, Len(head) + 1, Len(t))) :
        t \in {u \in _expand_equipment_tags(equipment_list) :
                 startswith(u, head) /\ AllDigits(Slice(u, Len(head) + 1, Len(u)))}}

\* ref is ISA-formatted and its sequence number is more than 2 away from every
\* known sibling of its prefix and code
OutOfRange(ref) ==
    /\ ISA_TAG_RE_match(ref)
    /\ \A n \in KnownSeqs(Slice(ref, 1, IsaPrefix(ref)[1])) :
          n - int(Slice(ref, IsaPrefix(ref)[1] + 1, Len(ref))) \notin (-2)..2

\* the equipment-reference check has run
EquipmentRefsChecked ==
    args.equipment /\ pc \in {"loop_keys", "io_points", "tag_consistency", "summary", "exit"}

\* the check reported the reference ref of the instrument tagged tag as unknown
ReportedUnknown(tag, ref) ==
    \E j \in DOMAIN warnings :
        warnings[j] = [kind |-> "unknown equipment", tag |-> tag, ref |-> ref]

\* the reference instrument k was loaded with
LoadedRef(k) == Get(db_in.instruments[k], "equipment_tag", <<>>)

\* C13: an instrument whose equipment_tag is one of the expanded individual siblings
\* of a compound tag of the equipment list is not modified by apply_auto_fixes and
\* produces no equipment-reference finding; an instrument whose ISA-formatted
\* equipment_tag has a sequence number more than 2 away from every known sibling of
\* that prefix and code is not modified and is reported by the following
\* equipment-reference check as an unknown equipment reference.
C13_ResolvableAndOutOfRangeLeftAlone ==
    \A k \in DOMAIN db_in.instruments :
        /\ LoadedRef(k) \in IndividualSiblings =>
              /\ instruments[k] = db_in.instruments[k]
              /\ ~ReportedUnknown(TagOf(instruments[k]), LoadedRef(k))
        /\ OutOfRange(LoadedRef(k)) =>
              /\ instruments[k] = db_in.instruments[k]
              /\ EquipmentRefsChecked =>
                    ReportedUnknown(TagOf(instruments[k]), LoadedRef(k))

\* '500-P-01/02/03' is listed, --fix has run over an instrument on '500-P-02' and
\* one on '500-P-09', and the check has reported the second of them only
C13_Witness ==
    /\ EquipmentRefsChecked
    /\ args.fix
    /\ \E i \in DOMAIN equipment_list : equipment_list[i].tag = Tag_500_P_01_02_03
    /\ Len(instruments) = 2
    /\ LoadedRef(1) = Tag_500_P(<<"0", "2">>)
    /\ LoadedRef(2) = Tag_500_P(<<"0", "9">>)
    /\ LoadedRef(1) \in IndividualSiblings
    /\ OutOfRange(LoadedRef(2))
    /\ instruments = db_in.instruments
    /\ ret.fix_count = 0
    /\ ReportedUnknown(TagOf(instruments[2]), LoadedRef(2))
    /\ ~ReportedUnknown(TagOf(instruments[1]), LoadedRef(1))


(***************************************************************************)
(* C14: the findings of validate_loop_keys.                                *)
(***************************************************************************)
\* the findings of the given kind among all_errors
FindingsOfKind(kind) ==
    {j \in DOMAIN warnings : "kind" \in DOMAIN warnings[j] /\ warnings[j].kind = kind}

LoopKey(x) == Get(x, "loop_key", "")

\* the loop-key check has run
LoopKeysChecked == pc \in {"io_points", "tag_consistency", "summary", "exit"}

\* the instruments whose loop_key no Loop has
Dangling ==
    {k \in DOMAIN instruments :
        /\ LoopKey(instruments[k]) # ""
        /\ \A i \in DOMAIN db_in.loops : LoopKey(db_in.loops[i]) # LoopKey(instruments[k])}

\* the Loops whose loop_key an earlier Loop has
Repeating ==
    {i \in DOMAIN db_in.loops :
        /\ LoopKey(db_in.loops[i]) # ""
        /\ \E h \in 1..(i - 1) : LoopKey(db_in.loops[h]) = LoopKey(db_in.loops[i])}

\* C14: validate_loop_keys emits one finding for each instrument whose loop_key
\* matches no Loop, one for each Loop whose loop_key repeats an earlier Loop's key,
\* and one for each Loop or instrument with a missing loop_key; the findings are
\* separate entries, each names its instrument or key, and a duplicated key still
\* counts as existing for the instruments that reference it.
C14_LoopKeyFindings ==
    LoopKeysChecked =>
        /\ Cardinality(FindingsOfKind("non-existent loop_key")) = Cardinality(Dangling)
        /\ \A k \in Dangling :
              \E j \in FindingsOfKind("non-existent loop_key") :
                  /\ warnings[j].tag = TagOf(instruments[k])
                  /\ warnings[j].loop_key = LoopKey(instruments[k])
        /\ Cardinality(FindingsOfKind("duplicate loop_key")) = Cardinality(Repeating)
        /\ \A i \in Repeating :
              \E j \in FindingsOfKind("duplicate loop_key") :
                  warnings[j].loop_key = LoopKey(db_in.loops[i])
        /\ Cardinality(FindingsOfKind("loop missing loop_key"))
             = Cardinality({i \in DOMAIN db_in.loops : LoopKey(db_in.loops[i]) = ""})
        /\ Cardinality(FindingsOfKind("missing loop_key"))
             = Cardinality({k \in DOMAIN instruments : LoopKey(instruments[k]) = ""})
        /\ \A k \in DOMAIN instruments :
              LoopKey(instruments[k]) = "" =>
                  \E j \in FindingsOfKind("missing loop_key") :
                      warnings[j].tag = TagOf(instruments[k])

\* two of the Loops share 'L1' and one has no key; one instrument references 'L9',
\* which no Loop has, the other 'L1': three findings, none about the second instrument
C14_Witness ==
    /\ LoopKeysChecked
    /\ Repeating # {}
    /\ Len(instruments) = 2
    /\ LoopKey(instruments[1]) = "L9"
    /\ LoopKey(instruments[2]) = "L1"
    /\ Dangling = {1}
    /\ Cardinality(FindingsOfKind("non-existent loop_key")) = 1
    /\ Cardinality(FindingsOfKind("duplicate loop_key")) = 1
    /\ Cardinality(FindingsOfKind("loop missing loop_key")) = 1
    /\ FindingsOfKind("missing loop_key") = {}


(***************************************************************************)
(* decode_isa_tag.py: decode_tag on a tag string, then generate_tag on the *)
(* components it returned.                                                 *)
(***************************************************************************)
DecodeAreas == {<<"2", "0", "0">>, <<"2", "0">>, <<"A", "0", "1">>}
DecodeLetters == {<<"F">>, <<"F", "I", "T">>, <<"f", "i", "t">>, <<"F", "A", "H">>,
                  <<"L", "A">>, <<"P", "1">>}
DecodeNumbers == {<<"0", "1">>, <<"7">>, <<>>}
DecodeSuffixes == {<<>>, <<"A">>, <<"b">>, <<"A", "B">>}
DecodeTrailers == {<<>>, <<"\n">>, <<" ">>, <<"\n", "\n">>}

\* the strings decode_tag is called with
DecodeInputs ==
    {T(a, l, n) \o s \o t :
        a \in DecodeAreas, l \in DecodeLetters, n \in DecodeNumbers,
        s \in DecodeSuffixes, t \in DecodeTrailers}

InitDecode ==
    /\ pc = "decode_tag"
    /\ args \in [tag : DecodeInputs]
    /\ ret = [dec |-> None, tag |-> <<>>]
    /\ NoApply

DecodeInput ==
    /\ pc = "decode_tag"
    /\ ret' = [ret EXCEPT !.dec = decode_tag(args.tag)]
    /\ pc' = IF decode_tag(args.tag) = None THEN "rejected" ELSE "generate_tag"
    /\ UNCHANGED <<args, applyVars>>

GenerateDecoded ==
    /\ pc = "generate_tag"
    /\ ret' = [ret EXCEPT !.tag = generate_tag(ret.dec.area, ret.dec.variable,
                                               ret.dec.function, ret.dec.loop_number,
                                               ret.dec.modifier, ret.dec.suffix)]
    /\ pc' = "generated"
    /\ UNCHANGED <<args, applyVars>>

NextDecode == DecodeInput \/ GenerateDecoded

SpecDecode == InitDecode /\ [][NextDecode]_vars

(***************************************************************************)
(* C15: generate after decode.                                             *)
(***************************************************************************)
\* C15 as stated: for every tag string s that decode_tag accepts, generate_tag
\* applied to the decoded area, variable, function, modifier, loop_number and suffix
\* returns s uppercased, which equals the decoded full_tag, and variable + function
\* + modifier is the LETTERS group of s.
C15_GenerateInvertsDecode ==
    pc = "generated" =>
        /\ ret.tag = upper(args.tag)
        /\ ret.tag = ret.dec.full_tag
        /\ ret.dec.variable \o ret.dec.function \o ret.dec.modifier
             = upper(split(args.tag, "-")[2])


(***************************************************************************)
(* validate_database.py: validate_database.  args holds strict and whether *)
(* the two files load, db_in the database, warnings is errors, paths the   *)
(* semantic checks evaluated so far, ret the warnings printed.  The schema *)
(* is a file outside the scripts: what the validator finds is an input.    *)
(***************************************************************************)
\* the orders a set can be iterated in
Orders(S) == {q \in [1..Cardinality(S) -> S] : \A x \in S : \E i \in DOMAIN q : q[i] = x}

\* [x for x in xs if x]
Truthies(xs) == NonEmpty(xs)

\* set(x for x in xs if x and xs.count(x) > 1)
Duplicates(xs) ==
    {xs[i] : i \in {j \in DOMAIN xs :
                      xs[j] # <<>> /\ \E h \in DOMAIN xs : h # j /\ xs[h] = xs[j]}}

\* what iter_errors may yield
SchemaErrors ==
    {<<>>,
     <<[kind |-> "schema error", path |-> "instruments.0.tag"]>>,
     <<[kind |-> "schema error", path |-> ""],
       [kind |-> "schema error", path |-> "instruments.1"]>>}

\* if errors: return errors
after_schema_Continue(errors) == "duplicate_ids"

after_schema(errors) == IF errors # <<>> THEN "returned" ELSE "duplicate_ids"

\* the findings of one kind, one for each value of dups in the order given
DuplicateFindings(kind, order) == [k \in DOMAIN order |-> [kind |-> kind, dup |-> order[k]]]

instrument_ids(insts) == [k \in DOMAIN insts |-> Get(insts[k], "instrument_id", <<>>)]

full_tags(insts) == [k \in DOMAIN insts |-> Field(Get(insts[k], "tag", <<>>), "full_tag")]

io_point_ids(inst) == io_ids(Get(inst, "io_signals", <<>>))

\* the io_types of an instrument that are set and not one of valid_io_types
invalid_io_types(inst) ==
    LET io_signals == Get(inst, "io_signals", <<>>)
        types == [k \in DOMAIN io_signals |-> Get(io_signals[k], "io_type", "")]
        bad == {k \in DOMAIN types : types[k] \notin {"", "DI", "DO", "AI", "AO", "PI", "PO"}}
    IN [k \in 1..Cardinality(bad) |->
          [kind |-> "invalid io_type", tag |-> TagOf(inst),
           io_type |-> types[CHOOSE i \in bad : Cardinality({j \in bad : j <= i}) = k]]]

\* the instruments whose pid_reference is set and not one of source_pids
unknown_pid_warnings(database) ==
    LET found == pid_ref_errors(database.instruments,
                     {Get(q, "pid_number", NoneStr) : q \in Range(database.source_pids)})
    IN [k \in DOMAIN found |-> [kind |-> "pid warning", ref |-> found[k].ref,
                                tag |-> found[k].tag]]

VdbInstrument(instrument_id, tag, pid_reference_, io_signals) ==
    [instrument_id |-> instrument_id, tag |-> tag,
     location |-> [pid_reference |-> pid_reference_], io_signals |-> io_signals]

VdbInstrumentPool ==
    {VdbInstrument(<<"I", "1">>, AreaFirstTag, "PID-1",
                   <<[io_point_id |-> <<"io", 1>>, io_type |-> "DI"]>>),
     VdbInstrument(<<"I", "1">>, LettersFirst, "PID-7",
                   <<[io_point_id |-> <<"io", 1>>, io_type |-> "XX"],
                     [io_point_id |-> <<"io", 1>>, io_type |-> "DI"]>>),
     VdbInstrument(<<>>, AreaFirstTag, "", <<>>),
     [tag |-> [full_tag |-> <<>>]]}

InitVdb ==
    /\ pc = "load"
    /\ args \in [strict : BOOLEAN, load : {"ok", "database", "schema"}]
    /\ db_in \in {[instruments |-> insts,
                   source_pids |-> <<[pid_number |-> "PID-1"]>>] :
                    insts \in SeqsUpTo(VdbInstrumentPool, MaxInst)}
    /\ instruments = db_in.instruments
    /\ warnings = <<>>
    /\ paths = <<>>
    /\ ret = [printed |-> <<>>]
    /\ inst_i = 1
    /\ equipment_list = <<>>
    /\ patterns = <<>>
    /\ equipment_map = <<>>
    /\ eq_i = 0
    /\ dedup_removed = 0
    /\ motor_count = 0
    /\ applied_count = 0
    /\ skipped_count = 0
    /\ field_fallback_count = 0
    /\ uuid_next = 0

\* what validate_database leaves untouched
vdbRest == <<args, db_in, instruments, equipment_list, patterns, equipment_map, eq_i,
             dedup_removed, motor_count, applied_count, skipped_count,
             field_fallback_count, uuid_next>>

\* "Load files"
LoadFiles ==
    /\ pc = "load"
    /\ IF args.load = "ok"
       THEN pc' = "schema" /\ warnings' = warnings
       ELSE /\ pc' = "returned"
            /\ warnings' = <<[kind |-> "failed to load", file |-> args.load]>>
    /\ UNCHANGED <<vdbRest, ret, paths, inst_i>>

\* "JSON Schema validation"
ValidateSchema ==
    /\ pc = "schema"
    /\ \E found \in SchemaErrors :
          /\ warnings' = warnings \o found
          /\ pc' = after_schema(warnings \o found)
    /\ UNCHANGED <<vdbRest, ret, paths, inst_i>>

\* "Check for duplicate instrument_ids"
CheckDuplicateIds ==
    /\ pc = "duplicate_ids"
    /\ \E order \in Orders(Duplicates(Truthies(instrument_ids(instruments)))) :
          warnings' = warnings \o DuplicateFindings("duplicate instrument_id", order)
    /\ paths' = Append(paths, "duplicate instrument_id")
    /\ pc' = "duplicate_tags"
    /\ UNCHANGED <<vdbRest, ret, inst_i>>

\* "Check for duplicate full_tags"
CheckDuplicateTags ==
    /\ pc = "duplicate_tags"
    /\ \E order \in Orders(Duplicates(full_tags(instruments))) :
          warnings' = warnings \o DuplicateFindings("duplicate full_tag", order)
    /\ paths' = Append(paths, "duplicate full_tag")
    /\ pc' = "tag_structure"
    /\ UNCHANGED <<vdbRest, ret, inst_i>>

\* "Validate tag structure matches full_tag"
CheckTagStructure ==
    /\ pc = "tag_structure"
    /\ warnings' = warnings \o validate_database_tags(instruments)
    /\ paths' = Append(paths, "tag mismatch")
    /\ pc' = IF instruments = <<>> THEN "source_pids" ELSE "io_point_ids"
    /\ UNCHANGED <<vdbRest, ret, inst_i>>

\* "Validate io_signals have unique io_point_ids", one instrument of the loop
CheckIoPointIds ==
    /\ pc = "io_point_ids"
    /\ \E order \in Orders(Duplicates(io_point_ids(instruments[inst_i]))) :
          warnings' = warnings \o
              [k \in DOMAIN order |->
                  [kind |-> "duplicate io_point_id", tag |-> TagOf(instruments[inst_i]),
                   dup |-> order[k]]]
    /\ inst_i' = inst_i + 1
    /\ pc' = IF inst_i = Len(instruments) THEN "source_pids" ELSE "io_point_ids"
    /\ paths' = IF inst_i = Len(instruments)
                THEN Append(paths, "duplicate io_point_id") ELSE paths
    /\ UNCHANGED <<vdbRest, ret>>

\* "Check source_pids references": an error in strict mode, else a printed warning
CheckSourcePids ==
    /\ pc = "source_pids"
    /\ IF args.strict
       THEN warnings' = warnings \o unknown_pid_warnings(db_in) /\ ret' = ret
       ELSE /\ ret' = [ret EXCEPT !.printed = ret.printed \o unknown_pid_warnings(db_in)]
            /\ warnings' = warnings
    /\ paths' = IF instruments = <<>>
                THEN paths \o <<"duplicate io_point_id", "pid reference">>
                ELSE Append(paths, "pid reference")
    /\ pc' = "io_types"
    /\ UNCHANGED <<vdbRest, inst_i>>

\* "Validate io_type consistency", then return errors
CheckIoTypes ==
    /\ pc = "io_types"
    /\ warnings' = warnings \o Concat([k \in DOMAIN instruments |->
                                          invalid_io_types(instruments[k])])
    /\ paths' = Append(paths, "io_type")
    /\ pc' = "returned"
    /\ UNCHANGED <<vdbRest, ret, inst_i>>

NextVdb ==
    \/ LoadFiles
    \/ ValidateSchema
    \/ CheckDuplicateIds
    \/ CheckDuplicateTags
    \/ CheckTagStructure
    \/ CheckIoPointIds
    \/ CheckSourcePids
    \/ CheckIoTypes

SpecVdb == InitVdb /\ [][NextVdb]_vars


(***************************************************************************)
(* C16: schema errors abort, semantic findings accumulate.                 *)
(***************************************************************************)
KindOf(f) == IF "kind" \in DOMAIN f THEN f.kind ELSE "tag mismatch"

Count(fs, kind) == Cardinality({j \in DOMAIN fs : KindOf(fs[j]) = kind})

HasSchemaError == Count(warnings, "schema error") > 0

SemanticChecks == <<"duplicate instrument_id", "duplicate full_tag", "tag mismatch",
                    "duplicate io_point_id", "pid reference", "io_type">>

\* the instruments that reference a P&ID the database does not list
UnknownPidRefs ==
    {k \in DOMAIN instruments :
        /\ pid_reference(instruments[k]) # ""
        /\ \A i \in DOMAIN db_in.source_pids :
              Get(db_in.source_pids[i], "pid_number", NoneStr)
                # pid_reference(instruments[k])}

\* the result holds what every semantic check finds in the database and nothing
\* else, pids being the number of P&ID findings among them
Accumulated(pids) ==
    /\ paths = SemanticChecks
    /\ Count(warnings, "duplicate instrument_id")
         = Cardinality(Duplicates(instrument_ids(instruments)))
    /\ Count(warnings, "duplicate full_tag")
         = Cardinality(Duplicates(full_tags(instruments)))
    /\ Count(warnings, "tag mismatch")
         = Cardinality({k \in DOMAIN instruments :
                          /\ full_tags(instruments)[k] # <<>>
                          /\ full_tags(instruments)[k] # vdb_expected(instruments[k].tag)})
    /\ Count(warnings, "duplicate io_point_id")
         = Sum([k \in DOMAIN instruments |->
                   Cardinality(Duplicates(io_point_ids(instruments[k])))])
    /\ Count(warnings, "pid warning") = pids
    /\ Count(warnings, "invalid io_type")
         = Sum([k \in DOMAIN instruments |-> Len(invalid_io_types(instruments[k]))])
    /\ Len(warnings) = Sum([k \in DOMAIN SemanticChecks |->
                               Count(warnings, IF SemanticChecks[k] = "pid reference"
                                               THEN "pid warning"
                                               ELSE IF SemanticChecks[k] = "io_type"
                                               THEN "invalid io_type"
                                               ELSE SemanticChecks[k])])

\* a schema violation: the result is schema errors only, no semantic check ran
SchemaAborts ==
    HasSchemaError =>
        /\ \A j \in DOMAIN warnings : KindOf(warnings[j]) = "schema error"
        /\ paths = <<>>
        /\ ret.printed = <<>>
        /\ pc = "returned"

\* validate_database returned and neither file nor schema stopped it
ReturnedClean == pc = "returned" /\ args.load = "ok" /\ ~HasSchemaError

\* C16 as stated: when validate_database finds a schema violation, the returned
\* findings consist only of schema errors and no semantic check is evaluated or
\* reported; when there is none, all semantic findings (duplicate instrument_id,
\* duplicate full_tag, tag mismatch, duplicate io_point_id, P&ID reference, io_type)
\* are accumulated into one result.
C16_SchemaAbortsElseAllAccumulated ==
    /\ SchemaAborts
    /\ ReturnedClean => Accumulated(Cardinality(UnknownPidRefs))

\* C16, amended: a schema violation returns the schema errors only and no semantic
\* check is evaluated; without one every semantic check is evaluated and its
\* findings are accumulated into the one result, those of the P&ID reference check
\* in strict mode only: otherwise they are printed as warnings and left out.
C16_SchemaAbortsElseAccumulatedPidWhenStrict ==
    /\ SchemaAborts
    /\ ReturnedClean =>
          /\ Accumulated(IF args.strict THEN Cardinality(UnknownPidRefs) ELSE 0)
          /\ Len(ret.printed) = IF args.strict THEN 0 ELSE Cardinality(UnknownPidRefs)

\* the schema is violated by a database that repeats an instrument_id and holds a
\* mismatching tag: the result is the schema errors
C16_Witness ==
    /\ pc = "returned"
    /\ HasSchemaError
    /\ Duplicates(instrument_ids(instruments)) # {}
    /\ \E k \in DOMAIN instruments :
          /\ full_tags(instruments)[k] # <<>>
          /\ full_tags(instruments)[k] # vdb_expected(instruments[k].tag)
    /\ Len(warnings) = Count(warnings, "schema error")
    /\ paths = <<>>


(***************************************************************************)
(* C17: the validator's tag set and the keys of the alias index.           *)
(***************************************************************************)
\* C17 as stated: for every equipment list, the set returned by
\* _expand_equipment_tags equals the key set of the equipment_map built in
\* apply_patterns, so an instrument resolves to an equipment by exact key if and
\* only if its reference is in the validator's set.
C17_ValidatorSetIsAliasKeySet ==
    pc # "build_map" => _expand_equipment_tags(equipment_list) = DOMAIN equipment_map


(***************************************************************************)
(* apply_patterns on compound equipment and databases that hold motor      *)
(* instruments already.                                                    *)
(***************************************************************************)
\* a paired blower, a pump with its area, a filter pair that is one comma part
CompoundEquipment ==
    {Equipment(Tag_202_B_01_02, "DOL"),
     [tag |-> Tag_300_P_01, feeder_type |-> "VFD", area |-> <<"3", "0", "0">>],
     Equipment(Tag_401_F_01 \o <<"/", "0", "2">> \o <<",", " ">> \o Tag_202_B_02, "dol")}

\* motor instruments on the first and on the second sibling of the pair, one on the
\* second filter known by its type only, and a transmitter on the second sibling
MotorInstruments ==
    {Instrument(Tag_202_B_01 \o <<"-", "M">>, Tag_202_B_01, "", <<>>, {"M"}, <<>>),
     Instrument(Tag_202_B_02 \o <<"-", "M">>, Tag_202_B_02, "", <<>>, {"M"}, <<>>),
     Instrument(T(<<"4", "0", "1">>, <<"X", "S">>, <<"0", "2">>), Tag_401_F_02,
                "Motor Control", <<"X">>, {"S"}, <<>>),
     Instrument(Tag_200_FIT_01, Tag_202_B_02, "Transmitter", <<"F">>, {"I", "T"}, <<>>)}

InitMotor ==
    InitRun(SeqsUpTo(CompoundEquipment, MaxEq), SeqsUpTo(MotorInstruments, MaxInst))

SpecMotor == InitMotor /\ [][NextApply]_vars

(***************************************************************************)
(* C18: an existing motor instrument suppresses the synthesis.             *)
(***************************************************************************)
\* the tag variants an equipment tag denotes: each comma part, each stripped base,
\* each individual paired sibling
TagVariants(tag) ==
    Range(Parts(tag)) \cup Range(normalize_equipment_tag(tag))
    \cup UNION {SiblingsOf(part) : part \in {q \in Range(Parts(tag)) : IsCompound(q)}}

\* the database held a motor instrument that references one of the variants
MotorInstrumentOn(variants) ==
    \E k \in DOMAIN Preexisting :
        IsMotorInstrument(Preexisting[k]) /\ Preexisting[k].equipment_tag \in variants

\* Phase 1 appended a motor instrument for the equipment tag
SynthesizedFor(tag) ==
    \E n \in 1..motor_count : instruments[FirstAppended + n].equipment_tag = tag

\* C18 as stated: for every equipment, if an existing motor instrument references
\* any of the tag variants the equipment's tag denotes (each comma part, each
\* stripped base, each individual paired sibling), no motor instrument is
\* synthesized for that equipment.
C18_MotorOnAnyVariantSuppresses ==
    pc \in {"phase2", "done"} =>
        \A i \in DOMAIN equipment_list :
            MotorInstrumentOn(TagVariants(equipment_list[i].tag))
                => ~SynthesizedFor(equipment_list[i].tag)

(***************************************************************************)
(* C19: the tags of the synthesized instruments.                           *)
(***************************************************************************)
\* the instruments Phase 1 appended
Synthesized == [n \in 1..motor_count |-> instruments[FirstAppended + n]]

\* C19 as stated: every instrument synthesized by the motor synthesizer has a
\* full_tag equal to the concatenation of its area, variable, function, modifier,
\* loop_number and suffix, so the tag self-consistency checks (of sync_cross_refs
\* and of validate_database) report no finding for any synthesized record.
C19_SynthesizedTagsConsistent ==
    pc \in {"phase2", "done"} =>
        /\ validate_tag_consistency(Synthesized) = <<>>
        /\ validate_database_tags(Synthesized) = <<>>


(***************************************************************************)
(* C20: the references apply_auto_fixes cannot fix.                        *)
(***************************************************************************)
\* apply_auto_fixes has run
AutoFixed == args.equipment /\ args.fix /\ pc \notin {"pid_refs", "auto_fix"}

\* the reference of instrument k is set, is not in the expanded equipment set, and
\* neither its stripped base nor a sibling at offset 1 or 2 is
Unfixable(k) ==
    /\ LoadedRef(k) # <<>>
    /\ LoadedRef(k) \notin _expand_equipment_tags(equipment_list)
    /\ \A e \in 1..Len(LoadedRef(k)) :
          IsPairedSuffix(Slice(LoadedRef(k), e + 1, Len(LoadedRef(k))))
              => Slice(LoadedRef(k), 1, e) \notin _expand_equipment_tags(equipment_list)
    /\ ISA_TAG_RE_match(LoadedRef(k)) =>
          \A n \in KnownSeqs(Slice(LoadedRef(k), 1, IsaPrefix(LoadedRef(k))[1])) :
              n - int(Slice(LoadedRef(k), IsaPrefix(LoadedRef(k))[1] + 1,
                            Len(LoadedRef(k)))) \notin ((-2)..2)

\* the manual-review messages about instrument k
ManualReview(k) ==
    {j \in DOMAIN ret.messages :
        ret.messages[j] = [kind |-> "info", tag |-> TagOf(db_in.instruments[k]),
                           ref |-> LoadedRef(k)]}

Tag_500_T(seq) == T(<<"5", "0", "0">>, <<"T">>, seq)

ProbeEquipmentPool ==
    {Equipment(Tag_500_P(<<"0", "0">>), "DOL"),
     Equipment(Tag_500_P(<<"0", "3">>), "DOL"),
     Equipment(Tag_500_P(<<"0", "4">>), "DOL"),
     Equipment(Tag_500_P(<<"0", "6">>), "VFD"),
     Equipment(Tag_500_P(<<"0", "7">>), "VFD"),
     Equipment(Tag_500_P(<<"6">>), "VFD"),
     Equipment(Tag_500_P(<<"1", "0">>), "DOL"),
     Equipment(Tag_500_T(<<"0", "6">>), "DOL")}

ProbeInstrumentPool ==
    {SyncInstrument(LettersFirst, Tag_500_P(<<"0", "5">>), "", "", <<>>),
     SyncInstrument(AreaFirstTag, Tag_500_P(<<"0", "1">>), "", "", <<>>),
     SyncInstrument(LettersFirst, Tag_500_P(<<"9">>), "", "", <<>>),
     SyncInstrument(AreaFirstTag, Tag_500_T(<<"0", "5">>), "", "", <<>>)}

InitProbe ==
    /\ pc = "pid_refs"
    /\ args = [fix |-> TRUE, equipment |-> TRUE]
    /\ equipment_list \in SeqsUpTo(ProbeEquipmentPool, MaxEq)
    /\ db_in \in {[instruments |-> insts, loops |-> <<>>, source_pids |-> <<>>] :
                    insts \in SeqsUpTo(ProbeInstrumentPool, MaxInst)}
    /\ instruments = db_in.instruments
    /\ warnings = <<>>
    /\ ret = [fix_count |-> 0, messages |-> <<>>, saved |-> None, status |-> None]
    /\ patterns = <<>>
    /\ equipment_map = <<>>
    /\ eq_i = 0
    /\ inst_i = 0
    /\ dedup_removed = 0
    /\ motor_count = 0
    /\ applied_count = 0
    /\ skipped_count = 0
    /\ field_fallback_count = 0
    /\ uuid_next = 0
    /\ paths = <<>>

SpecProbe == InitProbe /\ [][NextSync]_vars

\* prefix-code- of an ISA-formatted reference, and its sequence number
HeadOf(ref) == Slice(ref, 1, IsaPrefix(ref)[1])

SeqOf(ref) == Slice(ref, IsaPrefix(ref)[1] + 1, Len(ref))

\* the candidate at offset off of ref, in the digit width of ref
Candidate(ref, off) == HeadOf(ref) \o format_0d(int(SeqOf(ref)) + off, Len(SeqOf(ref)))

\* the candidate at offset off is probed and is a known equipment tag
Resolves(ref, off) ==
    /\ int(SeqOf(ref)) + off >= 1
    /\ Candidate(ref, off) \in _expand_equipment_tags(equipment_list)

\* the instruments whose reference is ISA-formatted and not a known equipment tag
Orphans ==
    {k \in DOMAIN db_in.instruments :
        /\ ISA_TAG_RE_match(LoadedRef(k))
        /\ LoadedRef(k) \notin _expand_equipment_tags(equipment_list)}

\* the reference of instrument k is the candidate at offset off of what it was loaded with
Adopted(k, off) == instruments[k].equipment_tag = Candidate(LoadedRef(k), off)

\* C21: for an orphaned ISA-formatted equipment_tag prefix-code-seq, apply_auto_fixes
\* probes seq+1, seq-1, seq+2, seq-2 in that order, skipping candidates below 1, and
\* adopts the first candidate present in the expanded equipment set, formatted with
\* the original digit width; the adopted tag has the area prefix and the
\* equipment-type code of the original, and no candidate outside these four offsets
\* is ever adopted.
C21_SiblingProbing ==
    AutoFixed =>
        \A k \in Orphans :
            /\ Resolves(LoadedRef(k), 1) => Adopted(k, 1)
            /\ ~Resolves(LoadedRef(k), 1) /\ Resolves(LoadedRef(k), -1) => Adopted(k, -1)
            /\ (\A off \in {1, -1} : ~Resolves(LoadedRef(k), off))
                  /\ Resolves(LoadedRef(k), 2) => Adopted(k, 2)
            /\ (\A off \in {1, -1, 2} : ~Resolves(LoadedRef(k), off))
                  /\ Resolves(LoadedRef(k), -2) => Adopted(k, -2)
            /\ (\A off \in {1, -1, 2, -2} : ~Resolves(LoadedRef(k), off))
                  => instruments[k] = db_in.instruments[k]
            /\ instruments[k].equipment_tag # LoadedRef(k) =>
                  /\ ISA_TAG_RE_match(instruments[k].equipment_tag)
                  /\ HeadOf(instruments[k].equipment_tag) = HeadOf(LoadedRef(k))
                  /\ int(SeqOf(instruments[k].equipment_tag)) >= 1
                  /\ int(SeqOf(instruments[k].equipment_tag)) - int(SeqOf(LoadedRef(k)))
                        \in {1, -1, 2, -2}
                  /\ Len(SeqOf(instruments[k].equipment_tag)) >= Len(SeqOf(LoadedRef(k)))

\* with '500-P-03' and '500-P-07' listed, the instrument on '500-P-05' is moved to
\* '500-P-07' (offset +2 comes before -2) and the instrument on '500-P-01' to
\* '500-P-03'
C21_Witness ==
    /\ AutoFixed
    /\ equipment_list = <<Equipment(Tag_500_P(<<"0", "3">>), "DOL"),
                          Equipment(Tag_500_P(<<"0", "7">>), "VFD")>>
    /\ Len(instruments) = 2
    /\ LoadedRef(1) = Tag_500_P(<<"0", "5">>)
    /\ LoadedRef(2) = Tag_500_P(<<"0", "1">>)
    /\ Orphans = {1, 2}
    /\ instruments[1].equipment_tag = Tag_500_P(<<"0", "7">>)
    /\ instruments[2].equipment_tag = Tag_500_P(<<"0", "3">>)
    /\ ret.fix_count = 2


(***************************************************************************)
(* C22: the path Phase 2 takes for an instrument, over runs on every kind  *)
(* of instrument of the pool and on an instrument that carries the marker  *)
(* of the synthesizer without having signals.                              *)
(***************************************************************************)
Phase2Equipment ==
    {e \in EquipmentPool : e.tag \in {Tag_300_P_01, Tag_202_B_01_02, Tag_102_G_01}}

\* a record of an earlier run: the marker of the synthesizer, and no signals
MarkedWithoutSignals ==
    [Instrument(Tag_202_B_01 \o <<"-", "M">>, Tag_202_B_01, "Motor Control", <<>>, {"M"},
                <<>>)
        EXCEPT !.provenance = [extraction_source |-> "motor_instrument_gen"]]

\* a valve on the second blower of the pair
ValveOnBlower ==
    Instrument(<<"X", "V", "-", "0", "2">>, Tag_202_B_02, "", <<"X">>, {"V"}, <<>>)

Phase2Instruments == InstrumentPool \cup {MarkedWithoutSignals, ValveOnBlower}

\* the pattern tables, and one that lists pump_dol without a definition
Phase2Tables ==
    PatternTables
    \cup {("pump_dol" :> <<>>)
          @@ ("valve_onoff_electric" :> [signals |-> <<Template(<<"Z", "S", "O">>)>>])}

InitPhase2 ==
    /\ equipment_list \in SeqsUpTo(Phase2Equipment, MaxEq)
    /\ patterns \in Phase2Tables
    /\ db_in \in SeqsUpTo(Phase2Instruments, MaxInst)
    /\ instruments = db_in
    /\ equipment_map = <<>>
    /\ warnings = <<>>
    /\ eq_i = 1
    /\ inst_i = 1
    /\ dedup_removed = 0
    /\ motor_count = 0
    /\ applied_count = 0
    /\ skipped_count = 0
    /\ field_fallback_count = 0
    /\ uuid_next = 0
    /\ paths = <<>>
    /\ pc = IF equipment_list = <<>> THEN "check_feeder" ELSE "build_map"
    /\ args = <<>>
    /\ ret = <<>>

SpecPhase2 == InitPhase2 /\ [][NextApply]_vars

\* the signals without their io_point_id
WithoutIds(io_signals) ==
    [k \in DOMAIN io_signals |-> [io_signals[k] EXCEPT !.io_point_id = <<>>]]

\* the signals of the pattern called name, on base_tag, with the feeder label
PatternSignals(name, base_tag, feeder) ==
    WithoutIds(stamp(generate_io_signals(patterns[name], base_tag, feeder, 0), name))

\* the instruments of the database that Phase 2 has been over
Handled == {j \in DOMAIN paths : j <= FirstAppended}

\* instrument j of the deduplicated database, as Phase 2 found it
Found(j) == dedup(db_in)[j]

\* what the equipment of instrument j resolves to: <<pattern name, feeder label>>
EquipmentPattern(j) ==
    get_pattern_for_equipment(
        equipment_list[find_equipment(equipment_map, Found(j).equipment_tag)])

\* a field instrument has the signals it was found with, or those of the pattern
\* the classifier chose, with feeder label 'Direct'
FieldPath(j) ==
    is_field_instrument(Found(j)) =>
        /\ paths[j] # "equipment"
        /\ \/ instruments[j] = Found(j)
           \/ /\ infer_field_instrument_pattern(Found(j)) \in DOMAIN patterns
              /\ WithoutIds(instruments[j].io_signals)
                   = PatternSignals(infer_field_instrument_pattern(Found(j)),
                                    Found(j).tag.full_tag, "Direct")
        /\ \A k \in DOMAIN instruments[j].io_signals :
              instruments[j].io_signals[k] \in Range(Found(j).io_signals)
              \/ /\ instruments[j].io_signals[k].electrical.feeder_type = "Direct"
                 /\ instruments[j].io_signals[k].pattern_source
                      = infer_field_instrument_pattern(Found(j))

\* instrument j is neither field nor local, has no signals, and its equipment
\* resolves to a pattern
OnEquipmentPath(j) ==
    /\ ~is_field_instrument(Found(j))
    /\ ~is_local_instrument(Found(j))
    /\ Found(j).io_signals = <<>>
    /\ find_equipment(equipment_map, Found(j).equipment_tag) # 0
    /\ EquipmentPattern(j)[1] # NoneStr

\* instrument j has the signals of the pattern of its equipment
HasEquipmentSignals(j) ==
    WithoutIds(instruments[j].io_signals)
      = PatternSignals(EquipmentPattern(j)[1], Found(j).tag.full_tag, EquipmentPattern(j)[2])

\* C22 as stated: an instrument classified as a field instrument never receives
\* signals from the equipment-driven pattern even when its equipment_tag resolves; it
\* receives only the pattern chosen by the field-instrument classifier, with feeder
\* label 'Direct'.  A non-field, non-local instrument without io_signals whose
\* equipment resolves (exact key first, then normalized variants) to a pattern
\* present in the table receives exactly that equipment pattern's signals, stamped
\* with that pattern name.
C22_EquipmentPathForListedPattern ==
    pc \in {"phase2", "done"} =>
        \A j \in Handled :
            /\ FieldPath(j)
            /\ OnEquipmentPath(j) /\ EquipmentPattern(j)[1] \in DOMAIN patterns
                  => HasEquipmentSignals(j)

\* C22, amended: the same for field instruments; a non-field, non-local instrument
\* without io_signals that does not carry the marker of the synthesizer and whose
\* equipment resolves to a pattern with a non-empty definition in the table receives
\* exactly that pattern's signals, stamped with that pattern name, and is counted
\* as equipment-matched.
C22_PathSelection ==
    pc \in {"phase2", "done"} =>
        \A j \in Handled :
            /\ FieldPath(j)
            /\ OnEquipmentPath(j) /\ ~is_generated_motor(Found(j))
                  /\ Truthy(PatternGet(patterns, EquipmentPattern(j)[1]))
                  => HasEquipmentSignals(j) /\ paths[j] = "equipment"

\* with 300-P-01 on a VFD listed and pump_vfd = [RUN], the transmitter on 300-P-01
\* has the one signal of transmitter_4_20 labelled 'Direct' and the instrument
\* '300-P-01-M' on the same pump has the RUN signal of pump_vfd
C22_Witness ==
    /\ pc = "done"
    /\ equipment_list = <<Equipment(Tag_300_P_01, "VFD")>>
    /\ Len(db_in) = 2
    /\ db_in[1].tag.full_tag = Tag_200_FIT_01
    /\ db_in[1].equipment_tag = Tag_300_P_01
    /\ db_in[2].tag.full_tag = Tag_300_P_01 \o <<"-", "M">>
    /\ is_field_instrument(Found(1))
    /\ OnEquipmentPath(2)
    /\ paths = <<"fallback", "equipment">>
    /\ Len(instruments[1].io_signals) = 1
    /\ instruments[1].io_signals[1].pattern_source = "transmitter_4_20"
    /\ instruments[1].io_signals[1].electrical.feeder_type = "Direct"
    /\ Len(instruments[2].io_signals) = 1
    /\ instruments[2].io_signals[1].pattern_source = "pump_vfd"
    /\ instruments[2].io_signals[1].plc_tag
         = Tag_300_P_01 \o <<"-", "M", "-", "R", "U", "N">>


(***************************************************************************)
(* C23: the priority order of the field classifier.                        *)
(***************************************************************************)
\* the rules, as tests on the instrument the classifier was given
IsTransmitter ==
    \/ "T" \in args.tag.functions /\ "I" \in args.tag.functions
    \/ lower(args.instrument_type) = "transmitter"

IsSwitch == "S" \in args.tag.functions

IsActuatedValve == args.tag.variable = <<"X">> /\ "V" \in args.tag.functions

IsAnalyzer == lower(args.instrument_type) = "analyzer"

\* the switch pattern of a measured variable
SwitchPattern(variable) ==
    CASE variable = <<"L">> -> "level_switch"
      [] variable = <<"P">> -> "pressure_switch"
      [] variable = <<"T">> -> "temperature_switch"
      [] variable = <<"F">> -> "flow_switch"
      [] OTHER -> "level_switch"

\* C23: infer_field_instrument_pattern returns none whenever is_local_instrument is
\* true, whatever the other fields; otherwise transmitter_4_20 when the functions
\* contain both T and I or instrument_type is 'transmitter' (also when S is
\* present); otherwise, when the functions contain S, level_switch / pressure_switch
\* / temperature_switch / flow_switch for variable L / P / T / F and level_switch
\* for any other variable; otherwise valve_onoff_electric when variable is X and
\* functions contain V; otherwise transmitter_4_20 when instrument_type is
\* 'analyzer'; otherwise none.
C23_ClassifierPriority ==
    pc = "done" =>
        /\ ret.local => ret.pattern = NoneStr
        /\ ~ret.local /\ IsTransmitter => ret.pattern = "transmitter_4_20"
        /\ ~ret.local /\ ~IsTransmitter /\ IsSwitch
              => ret.pattern = SwitchPattern(args.tag.variable)
        /\ ~ret.local /\ ~IsTransmitter /\ ~IsSwitch /\ IsActuatedValve
              => ret.pattern = "valve_onoff_electric"
        /\ ~ret.local /\ ~IsTransmitter /\ ~IsSwitch /\ ~IsActuatedValve /\ IsAnalyzer
              => ret.pattern = "transmitter_4_20"
        /\ ~ret.local /\ ~IsTransmitter /\ ~IsSwitch /\ ~IsActuatedValve /\ ~IsAnalyzer
              => ret.pattern = NoneStr

\* the classifier has been given a temperature instrument with the functions I, T
\* and S that is not local, and has returned transmitter_4_20
C23_Witness ==
    /\ pc = "done"
    /\ ~ret.local
    /\ args.tag.functions = {"I", "T", "S"}
    /\ args.tag.variable = <<"T">>
    /\ args.instrument_type = ""
    /\ SwitchPattern(args.tag.variable) = "temperature_switch"
    /\ ret.pattern = "transmitter_4_20"


(***************************************************************************)
(* C24: the variable of an instrument and the variable of its Loop.        *)
(***************************************************************************)
\* the measured variable of instrument k
MeasuredVariable(k) == Field(Get(instruments[k], "tag", <<>>), "variable")

\* the instruments whose loop_key a Loop has
InLoop ==
    {k \in DOMAIN instruments : LoopKey(instruments[k]) # "" /\ k \notin Dangling}

\* the Loop instrument k references: the first Loop that has its loop_key
LoopOf(k) ==
    db_in.loops[Min({i \in DOMAIN db_in.loops :
                        LoopKey(db_in.loops[i]) = LoopKey(instruments[k])})]

\* the mismatch findings about instrument k
MismatchFindings(k) ==
    {j \in FindingsOfKind("variable mismatch") :
        /\ warnings[j].tag = TagOf(instruments[k])
        /\ warnings[j].variable = MeasuredVariable(k)
        /\ warnings[j].expected = Get(LoopOf(k), "variable", <<>>)}

\* one finding for each instrument of M, none for the others
MismatchesAre(M) ==
    /\ Cardinality(FindingsOfKind("variable mismatch")) = Cardinality(M)
    /\ \A k \in M : MismatchFindings(k) # {}
    /\ \A k \in InLoop \ M :
          (\A h \in M : instruments[h] # instruments[k]) => MismatchFindings(k) = {}

\* C24 as stated: for every instrument whose loop_key references an existing Loop,
\* validate_loop_keys emits a mismatch finding whenever the instrument's measured
\* variable differs from that Loop's variable, and emits none when they are equal.
C24_MismatchWheneverDifferent ==
    LoopKeysChecked =>
        MismatchesAre({k \in InLoop :
                          MeasuredVariable(k) # Get(LoopOf(k), "variable", <<>>)})

\* C24, amended: a mismatch finding is emitted whenever that Loop (the first one
\* with the key) declares a non-empty variable and the instrument's measured
\* variable differs from it, and none when they are equal or when the Loop declares
\* no variable.
C24_MismatchWithDeclaredVariable ==
    LoopKeysChecked =>
        MismatchesAre({k \in InLoop :
                          /\ Get(LoopOf(k), "variable", <<>>) # <<>>
                          /\ MeasuredVariable(k) # Get(LoopOf(k), "variable", <<>>)})

\* the one Loop 'L1' has variable F; the instrument that measures P on 'L1' has its
\* finding and the one that measures F on 'L1' has none
C24_Witness ==
    /\ LoopKeysChecked
    /\ db_in.loops = <<[loop_key |-> "L1", variable |-> <<"F">>]>>
    /\ Len(instruments) = 2
    /\ InLoop = {1, 2}
    /\ MeasuredVariable(1) = <<"P">>
    /\ MeasuredVariable(2) = <<"F">>
    /\ MismatchFindings(1) # {}
    /\ MismatchFindings(2) = {}
    /\ Cardinality(FindingsOfKind("variable mismatch")) = 1


(***************************************************************************)
(* C25: the category decode_tag gives.                                     *)
(***************************************************************************)
\* the category of the letter of the category table that comes first, in the order
\* of the table, among the letters; 'primary' when none of them is in the table
PriorityCategory(letters) ==
    IF \E i \in DOMAIN CATEGORY_RULES : CATEGORY_RULES[i] \in Range(letters)
    THEN CATEGORY_NAMES[Min({i \in DOMAIN CATEGORY_RULES :
                                CATEGORY_RULES[i] \in Range(letters)})]
    ELSE "primary"

\* C25 as stated: the category returned by decode_tag is the category of the
\* function letter that comes first in the fixed priority order of the category
\* table (E, T, I, R, C, S, A) among the letters present in the tag's function
\* letters, independent of the order in which the letters appear in the tag, and
\* 'primary' when no function letter is in the table; the modifier letter is not
\* considered.
C25_CategoryByTablePriority ==
    (pc \in {"check", "done"} /\ ret.dec # None) =>
        ret.dec.category = PriorityCategory(ret.dec.function)


(***************************************************************************)
(* C26: the siblings the index infers from quantity and quantity_note,     *)
(* over lists of equipment that carry the two fields.                      *)
(***************************************************************************)
Counted(tag, feeder_type, quantity, quantity_note) ==
    [tag |-> tag, feeder_type |-> feeder_type, quantity |-> quantity,
     quantity_note |-> quantity_note]

\* '2W + 1S', '1W+1s' and '2 pumps'
Note_2W_1S == <<"2", "W", " ", "+", " ", "1", "S">>
Note_1W_1s == <<"1", "W", "+", "1", "s">>
Note_2_pumps == <<"2", " ", "p", "u", "m", "p", "s">>

QuantityEquipment ==
    {Counted(Tag_102_G_01, "VFD", 2, Note_1W_1s),
     Counted(Tag_202_B_01_02, "DOL", 3, Note_2W_1S),
     Equipment(Tag_102_G_02, "DOL"),
     Counted(Tag_300_P_01, "VFD", 2, Note_2_pumps),
     Counted(Tag_401_F_01, "DOL", 1, Note_1W_1s)}

InitQuantity == InitRun(SeqsUpTo(QuantityEquipment, MaxEq), {<<>>})

SpecQuantity == InitQuantity /\ [][NextApply]_vars

\* the note counts standby units: a number followed by S, as in '1W + 1S'
IndicatesStandby(note) ==
    \E i \in DOMAIN note : i > 1 /\ IsDigit(note[i - 1]) /\ upper_char(note[i]) = "S"

\* the base tag of the equipment with its sequence number incremented by k, in the
\* width of that number
BaseSibling(tag, k) ==
    Slice(StripPairedSuffix(tag), 1, IsaPrefix(StripPairedSuffix(tag))[1])
    \o format_0d(int(Slice(StripPairedSuffix(tag),
                           IsaPrefix(StripPairedSuffix(tag))[1] + 1,
                           Len(StripPairedSuffix(tag)))) + k,
                 Len(StripPairedSuffix(tag)) - IsaPrefix(StripPairedSuffix(tag))[1])

\* a tag the equipment list registers without looking at a quantity: a raw tag, a
\* normalized variant or an individual tag of a pair
Listed(t) ==
    \E j \in DOMAIN equipment_list :
        \/ t = equipment_list[j].tag
        \/ t \in Range(normalize_equipment_tag(equipment_list[j].tag))
        \/ /\ paired_tag_match(equipment_list[j].tag)
           /\ t \in Range(PairedTags(equipment_list[j].tag))

\* C26 as stated: for every equipment with quantity q >= 2 whose quantity_note
\* indicates sister/standby units, the alias index contains, for each offset k in
\* 1..q-1, the tag formed from the equipment's base tag (paired suffixes stripped)
\* with its sequence number incremented by k and zero-padded to the original width,
\* all resolving to that same Equipment; for equipment with quantity < 2 or a note
\* that does not indicate sister/standby units, no such sibling alias is added.
C26_QuantitySiblings ==
    pc # "build_map" =>
        \A i \in DOMAIN equipment_list :
            LET eq == equipment_list[i]
                q == Get(eq, "quantity", 1)
                standby == q >= 2 /\ IndicatesStandby(Get(eq, "quantity_note", <<>>))
            IN /\ standby =>
                    \A k \in 1..(q - 1) :
                        /\ BaseSibling(eq.tag, k) \in DOMAIN equipment_map
                        /\ equipment_list[equipment_map[BaseSibling(eq.tag, k)]] = eq
               /\ ~standby =>
                    \A k \in 1..2 :
                        BaseSibling(eq.tag, k) \in DOMAIN equipment_map
                            => Listed(BaseSibling(eq.tag, k))
                               \/ \E j \in DOMAIN equipment_list :
                                     /\ Get(equipment_list[j], "quantity", 1) >= 2
                                     /\ IndicatesStandby(Get(equipment_list[j],
                                                             "quantity_note", <<>>))
                                     /\ \E h \in 1..2 :
                                           BaseSibling(equipment_list[j].tag, h)
                                             = BaseSibling(eq.tag, k)


(***************************************************************************)
(* apply_io_patterns.py: main.  args is the parsed command line (strict,   *)
(* and whether --output was given), ret the exit status and the files      *)
(* written, each with its path and the database dumped to it.              *)
(***************************************************************************)
InitMain ==
    /\ args \in [strict : BOOLEAN, output : BOOLEAN]
    /\ ret = [status |-> None, writes |-> <<>>]
    /\ equipment_list \in SeqsUpTo(MotorEquipment, MaxEq)
    /\ patterns \in PatternTables
    /\ db_in \in SeqsUpTo(FieldInstruments \cup {ValveOnBlower}, MaxInst)
    /\ instruments = db_in
    /\ equipment_map = <<>>
    /\ warnings = <<>>
    /\ eq_i = 1
    /\ inst_i = 1
    /\ dedup_removed = 0
    /\ motor_count = 0
    /\ applied_count = 0
    /\ skipped_count = 0
    /\ field_fallback_count = 0
    /\ uuid_next = 0
    /\ paths = <<>>
    /\ pc = IF equipment_list = <<>> THEN "check_feeder" ELSE "build_map"

\* a test that leaves on warnings whatever the mode
exits_on_warnings_AnyMode(ws, strict) == ws # <<>>

\* if warnings: ... if args.strict: sys.exit(1)
exits_on_warnings(ws, strict) == ws # <<>> /\ strict

\* Path(args.output) if args.output else database_path
output_path(output) == IF output THEN "output" ELSE "database"

\* what follows the call of apply_patterns: the report, and the dump
SaveOutput ==
    /\ pc = "done"
    /\ ret' = IF exits_on_warnings(warnings, args.strict)
              THEN [ret EXCEPT !.status = 1]
              ELSE [ret EXCEPT !.status = 0,
                               !.writes = Append(ret.writes,
                                                 [path |-> output_path(args.output),
                                                  database |-> instruments])]
    /\ pc' = "exit"
    /\ UNCHANGED <<args, applyVars>>

NextMain ==
    \/ BuildEquipmentMap
    \/ CheckFeederTypes
    \/ Dedup
    \/ GenerateMotorInstruments
    \/ ApplyPattern
    \/ SaveOutput

SpecMain == InitMain /\ [][NextMain]_vars

(***************************************************************************)
(* C27: the warnings of a run, strict mode and the write-back.             *)
(***************************************************************************)
\* the warnings of a kind
WarningsOfKind(kind) == {j \in DOMAIN warnings : warnings[j].kind = kind}

\* the equipment that lacks feeder_type and whose type code is in the table
LacksFeederType ==
    {i \in DOMAIN equipment_list :
        /\ equipment_list[i].feeder_type = ""
        /\ extract_equipment_type(equipment_list[i].tag) \in EquipmentCodes}

\* the equipment whose pattern Phase 1 looked up and did not find
MotorPatternMissing ==
    {i \in DOMAIN equipment_list :
        /\ Motorized(equipment_list[i])
        /\ ~Truthy(PatternGet(patterns, get_pattern_for_equipment(equipment_list[i])[1]))}

\* the instruments whose equipment pattern Phase 2 looked up and did not find
EquipmentPatternMissing ==
    {j \in Handled :
        /\ OnEquipmentPath(j)
        /\ ~is_generated_motor(Found(j))
        /\ ~Truthy(PatternGet(patterns, EquipmentPattern(j)[1]))}

\* the instruments that reached the classifier and whose pattern was not found
ReachedClassifier(j) ==
    /\ Found(j).io_signals = <<>>
    /\ ~is_generated_motor(Found(j))
    /\ paths[j] \notin {"equipment", "local"}

InferredPatternMissing ==
    {j \in Handled :
        /\ ReachedClassifier(j)
        /\ infer_field_instrument_pattern(Found(j)) # NoneStr
        /\ ~Truthy(PatternGet(patterns, infer_field_instrument_pattern(Found(j))))}

\* all three phases are through
PhasesDone ==
    /\ DOMAIN equipment_map # {} \/ equipment_list = <<>>
    /\ instruments # db_in \/ dedup(db_in) = db_in
    /\ Len(paths) = Len(instruments)

\* C27: a warning is collected for every equipment lacking feeder_type whose type
\* code is in the equipment-type table and for every resolved pattern name missing
\* from the pattern table (each lookup of Phase 1 and of Phase 2 that finds no
\* pattern); with strict mode on and at least one warning, the run exits with a
\* failing status and writes no output file; with strict mode off, or with no
\* warnings, the whole updated database is written exactly once after all three
\* phases have completed.
C27_StrictAndWriteBack ==
    /\ pc \notin {"build_map", "check_feeder"} =>
          /\ Cardinality(WarningsOfKind("missing_feeder_type")) = Cardinality(LacksFeederType)
          /\ \A i \in LacksFeederType :
                \E j \in WarningsOfKind("missing_feeder_type") :
                    warnings[j].tag = equipment_list[i].tag
    /\ pc \in {"phase2", "done", "exit"} =>
          /\ Cardinality(WarningsOfKind("motor_pattern_not_found"))
               = Cardinality(MotorPatternMissing)
          /\ \A i \in MotorPatternMissing :
                \E j \in WarningsOfKind("motor_pattern_not_found") :
                    /\ warnings[j].tag = equipment_list[i].tag
                    /\ warnings[j].pattern = get_pattern_for_equipment(equipment_list[i])[1]
    /\ pc \in {"done", "exit"} =>
          /\ Cardinality(WarningsOfKind("pattern_not_found"))
               = Cardinality(EquipmentPatternMissing)
          /\ \A j \in EquipmentPatternMissing :
                \E w \in WarningsOfKind("pattern_not_found") :
                    warnings[w].pattern = EquipmentPattern(j)[1]
          /\ Cardinality(WarningsOfKind("inferred_pattern_not_found"))
               = Cardinality(InferredPatternMissing)
          /\ \A j \in InferredPatternMissing :
                \E w \in WarningsOfKind("inferred_pattern_not_found") :
                    /\ warnings[w].pattern = infer_field_instrument_pattern(Found(j))
                    /\ warnings[w].tag = Found(j).tag.full_tag
    /\ pc # "exit" => ret.writes = <<>>
    /\ pc = "exit" =>
          /\ args.strict /\ warnings # <<>> => ret.status = 1 /\ ret.writes = <<>>
          /\ ~args.strict \/ warnings = <<>> =>
                /\ ret.status = 0
                /\ PhasesDone
                /\ ret.writes = <<[path |-> IF args.output THEN "output" ELSE "database",
                                   database |-> instruments]>>

\* a strict run and a run that is not strict have both ended with a warning for the
\* grinder without feeder_type: the first has written nothing
C27_Witness ==
    /\ pc = "exit"
    /\ args.strict
    /\ LacksFeederType # {}
    /\ WarningsOfKind("missing_feeder_type") # {}
    /\ instruments # db_in
    /\ ret.status = 1
    /\ ret.writes = <<>>

(***************************************************************************)
(* C28: the full_tags of the database after motor synthesis.               *)
(***************************************************************************)
\* the positions of a list of instruments that share a non-empty full_tag with a
\* later position
SharedFullTag(insts) ==
    {i \in DOMAIN insts :
        /\ ft_of(insts[i]) # <<>>
        /\ \E j \in DOMAIN insts : j > i /\ ft_of(insts[j]) = ft_of(insts[i])}

\* C28 as stated: after apply_patterns returns, no two instruments in the database
\* share the same non-empty full_tag: the uniqueness established by the dedup pass
\* still holds after motor synthesis, for every input database and equipment list
\* (including equipment lists with repeated tags).
C28_UniqueFullTags ==
    pc = "done" => SharedFullTag(instruments) = {}

(***************************************************************************)
(* C29: apply_patterns run again on its own output.                        *)
(***************************************************************************)
RECURSIVE build_equipment_map(_, _, _)
\* the loop that builds equipment_map, from position i of the equipment list on
build_equipment_map(d, list, i) ==
    IF i > Len(list) THEN d
    ELSE build_equipment_map(register_equipment(d, list, i), list, i + 1)

RECURSIVE phase2_loop(_, _, _, _, _, _)
\* the Phase 2 loop, from position i of the instruments on
phase2_loop(insts, d, list, table, uuids, i) ==
    IF i > Len(insts) THEN insts
    ELSE phase2_loop([insts EXCEPT ![i] = phase2_body(insts[i], d, list, table, uuids).inst],
                     d, list, table,
                     phase2_body(insts[i], d, list, table, uuids).uuids, i + 1)

\* Phase 2 on the database that Phase 1 has extended by r.appended
phase2_after(insts, r, d, list, table) ==
    [instruments |-> phase2_loop(insts \o r.appended, d, list, table, r.uuids, 1),
     motor_count |-> Len(r.appended)]

\* Phase 1 and Phase 2 on a deduplicated database
phases_after_dedup(insts, d, list, table, uuids) ==
    phase2_after(insts, generate_motor_instruments(list, insts, table, uuids),
                 d, list, table)

\* one whole run: the instruments of the returned database, the instruments Phase 0
\* has removed and the instruments Phase 1 has appended
apply_patterns(insts, list, table, uuids) ==
    [dedup_removed |-> count_removed(insts)]
    @@ phases_after_dedup(dedup(insts), build_equipment_map(<<>>, list, 1), list,
                          table, uuids)

\* the second run leaves the output of the first as it is
Unchanged(first, second) ==
    /\ second.dedup_removed = 0
    /\ second.motor_count = 0
    /\ Len(second.instruments) = Len(first)
    /\ \A k \in DOMAIN first : second.instruments[k].io_signals = first[k].io_signals

\* the instruments that had signals before the first run have them after run
KeepSignals(before, run) ==
    \A k \in DOMAIN before :
        before[k].io_signals # <<>> =>
            k \in DOMAIN run /\ run[k].io_signals = before[k].io_signals

\* C29 as stated: apply_patterns is idempotent on its own output: running it a
\* second time with the same equipment list and pattern table removes no
\* instrument, synthesizes no further motor instrument, and changes no instrument's
\* io_signals; instruments that already had non-empty io_signals before either run
\* keep them unchanged throughout.
C29_Idempotent ==
    pc = "done" =>
        /\ Unchanged(instruments,
                     apply_patterns(instruments, equipment_list, patterns, uuid_next))
        /\ KeepSignals(dedup(db_in), instruments)
        /\ KeepSignals(dedup(db_in),
                       apply_patterns(instruments, equipment_list, patterns,
                                      uuid_next).instruments)

(***************************************************************************)
(* C30: what apply_auto_fixes leaves, and a second application.            *)
(***************************************************************************)
\* the positions at which after differs from before
Changed(before, after) == {k \in DOMAIN before : after[k] # before[k]}

\* after differs from before in the equipment_tag of the changed positions only,
\* each taken from outside the set E into it
OnlyReferencesInto(before, after, E) ==
    /\ Len(after) = Len(before)
    /\ \A k \in Changed(before, after) :
          /\ "equipment_tag" \in DOMAIN before[k]
          /\ after[k] = [before[k] EXCEPT !.equipment_tag = after[k].equipment_tag]
          /\ before[k].equipment_tag \notin E
          /\ after[k].equipment_tag \in E

\* a second application on the same set changes nothing
SecondChangesNothing(again, after) ==
    again.instruments = after /\ again.fix_count = 0

\* C30: apply_auto_fixes changes only the equipment_tag field, only of instruments
\* whose reference was not in the expanded equipment set; every changed reference
\* is afterwards a member of that set; fix_count equals the number of instruments
\* changed; and applying it a second time with the same equipment set changes
\* nothing and returns fix_count 0.
C30_AutoFixPostcondition ==
    AutoFixed =>
        /\ OnlyReferencesInto(db_in.instruments, instruments,
                              _expand_equipment_tags(equipment_list))
        /\ ret.fix_count = Cardinality(Changed(db_in.instruments, instruments))
        /\ SecondChangesNothing(apply_auto_fixes(instruments,
                                                 _expand_equipment_tags(equipment_list)),
                                instruments)

\* the fixes have run on two instruments: the one on '500-P-05' now refers to a
\* sibling, the other, whose reference is not in the set either, is as it was
C30_Witness ==
    /\ AutoFixed
    /\ ret.fix_count = 1
    /\ Len(instruments) = 2
    /\ Cardinality(Changed(db_in.instruments, instruments)) = 1
    /\ \E k \in Changed(db_in.instruments, instruments) :
          /\ db_in.instruments[k].equipment_tag = Tag_500_P(<<"0", "5">>)
          /\ instruments[k].equipment_tag = Tag_500_P(<<"0", "3">>)
    /\ \E k \in DOMAIN instruments :
          /\ instruments[k] = db_in.instruments[k]
          /\ "equipment_tag" \in DOMAIN instruments[k]
          /\ instruments[k].equipment_tag \notin _expand_equipment_tags(equipment_list)

====
